---------------------------- MODULE Spec2Model ----------------------------
(***************************************************************************)
(* A model of the egui_term session adapter (src/src/backend/mod.rs): the  *)
(* TerminalBackend that sits between the egui widget and the               *)
(* alacritty_terminal engine.                                              *)
(*                                                                         *)
(* Conventions                                                             *)
(*  - An f32 pixel quantity is an integer number of 1/Sub pixels, so that  *)
(*    fractional font metrics and sub-cell pointer offsets exist.          *)
(*  - A grid point is [line, column]; line is the engine's signed line     *)
(*    number (negative lines are scrollback).                              *)
(*  - Every dispatch runs under the engine lock (process_command takes it  *)
(*    first and holds it to the end), so a dispatch, a sync and an engine  *)
(*    mutation are each one atomic step: Locked(A).  SpecLock takes the    *)
(*    lock apart into its acquire, run and release steps.                  *)
(*  - `sent` holds the messages the step just taken put on the notifier    *)
(*    channel; `cmd` names the step just taken; `tick` flips at every      *)
(*    step, so that a step that repeats the one before it is still a step. *)
(***************************************************************************)
EXTENDS Integers, Sequences, FiniteSets, TLC

VARIABLES
    size,           \* TerminalBackend.size : TerminalSize
    term,           \* the engine state behind Arc<FairMutex<Term>>
    last_content,   \* TerminalBackend.last_content : RenderableContent
    sent,           \* messages sent on notifier.0 by the last step
    cmd,            \* the last step (a BackendCommand, a sync or an engine step)
    panicked,       \* the UI thread has panicked inside the adapter
    tick,           \* parity of the number of steps taken (no step is a stutter)
    mutex,          \* FairMutex: the threads holding `next` and `data`
    ui_pc,          \* where the UI thread is in FairMutex::lock
    engine_pc,      \* where the event loop thread is in its locked read
    session,        \* the Result of TerminalBackend::new, and the value's life
    event_loop,     \* the pty event loop thread
    subscription,   \* the pty_event_subscription (forwarding) thread
    event_receiver, \* events queued on the channel behind EventProxy
    pty_event_proxy, \* the caller's channel: is its receiver alive, what it got
    repaints,       \* number of app_context.request_repaint() calls
    theme,          \* TerminalView.theme: the palette of its TerminalTheme
    color,          \* the outcome of the last TerminalTheme::get_color
    bindings_layout,\* TerminalView.bindings_layout: the keybinding table
    state,          \* TerminalViewState, kept in egui's memory between frames
    input_event,    \* the egui::Event process_input handled last
    input_action,   \* the InputAction it was translated to
    frame,          \* the call of TerminalView::ui under way: its position,
                    \* its Response and the input events not yet handled
    pending,        \* input_actions of the event being handled, not yet dispatched
    memory          \* the TerminalViewState stored in egui's memory

theme_vars == <<theme, color>>
input_vars == <<bindings_layout, state, input_event, input_action>>
frame_vars == <<frame, pending, memory>>

\* the widget's side: what TerminalView holds besides the backend
view_vars == <<theme_vars, input_vars, frame_vars>>

\* what lies outside the backend's fields and the engine lock
other_vars == <<session, event_loop, subscription, event_receiver,
                pty_event_proxy, repaints, view_vars>>

vars == <<size, term, last_content, sent, cmd, panicked, tick, mutex, ui_pc,
          engine_pc, other_vars>>

---------------------------------------------------------------------------
(* Bounds of the model *)

\* sub-pixel units per pixel in the fixed-point reading of f32
Sub == 2
\* deepest scrollback the engine accumulates
MaxHistory == 1
\* largest |delta| of a Scroll command
MaxDelta == 3
\* grid contents the engine cycles through (0 is the blank grid)
MaxContent == 1

---------------------------------------------------------------------------
(* Numeric helpers: Rust's casts and f32 operations on fixed-point values *)

U16_MAX == 65535

Min(a, b) == IF a <= b THEN a ELSE b
Max(a, b) == IF a >= b THEN a ELSE b
Abs(a) == IF a < 0 THEN -a ELSE a

\* n whole pixels, and n pixels plus one half (rounded down to the resolution)
Px(n) == n * Sub
PxHalf(n) == n * Sub + (Sub \div 2)

\* f32::floor
f32_floor(v) == (v \div Sub) * Sub

\* `v as u16` / `v as usize` for an f32: truncation toward zero, saturating;
\* negative values and NaN give 0
f32_as_u16(v) == IF v <= 0 THEN 0 ELSE Min(v \div Sub, U16_MAX)
f32_as_usize(v) == IF v <= 0 THEN 0 ELSE v \div Sub

\* `(a / b) as u16` for f32 a and a floored, non-negative f32 b.
\* b = 0: a/0.0 is +inf (a > 0), NaN (a = 0) or -inf (a < 0)
f32_div_as_u16(a, b) ==
    IF b = 0 THEN (IF a > 0 THEN U16_MAX ELSE 0)
    ELSE IF a <= 0 THEN 0
    ELSE Min(a \div b, U16_MAX)

---------------------------------------------------------------------------
(* Geometry *)

Size(w, h) == [width |-> w, height |-> h]

\* impl Default for TerminalSize
TerminalSizeDefault ==
    [cell_width |-> 1, cell_height |-> 1, num_cols |-> 80, num_lines |-> 50,
     layout_size |-> Size(0, 0)]

\* impl From<TerminalSize> for WindowSize
WindowSize(ts) ==
    [num_lines |-> ts.num_lines, num_cols |-> ts.num_cols,
     cell_width |-> ts.cell_width, cell_height |-> ts.cell_height]

Point(l, c) == [line |-> l, column |-> c]

\* Messages on the notifier channel (alacritty's Msg)
MsgInput(bytes) == [type |-> "Input", bytes |-> bytes]
MsgResize(ws) == [type |-> "Resize", window_size |-> ws]

\* Notifier::notify: an empty payload is not sent
notify(bytes) == IF Len(bytes) = 0 THEN <<>> ELSE <<MsgInput(bytes)>>

\* Notifier::on_resize
on_resize(ws) == <<MsgResize(ws)>>

---------------------------------------------------------------------------
(* The engine (alacritty_terminal::Term) as far as the adapter uses it *)

ALT_SCREEN == "ALT_SCREEN"
ALTERNATE_SCROLL == "ALTERNATE_SCROLL"
SGR_MOUSE == "SGR_MOUSE"
UTF8_MOUSE == "UTF8_MOUSE"

\* TermMode::MOUSE_MODE: the flags that turn mouse reporting on
MOUSE_MODE == {"MOUSE_REPORT_CLICK", "MOUSE_DRAG", "MOUSE_MOTION"}

ModeFlags == {ALT_SCREEN, ALTERNATE_SCROLL, SGR_MOUSE, UTF8_MOUSE}

\* TermMode::contains(flags)
contains(mode, flags) == flags \subseteq mode

\* scrollback lines available to the active grid (the alternate screen has none)
history_size(t) == IF ALT_SCREEN \in t.mode THEN 0 ELSE t.history

\* Grid::scroll_display
scroll_display(t, scroll) ==
    IF scroll.kind = "Bottom" THEN 0
    ELSE Min(Max(t.display_offset + scroll.delta, 0), history_size(t))

ScrollDelta(d) == [kind |-> "Delta", delta |-> d]
ScrollBottom == [kind |-> "Bottom"]


None == [some |-> FALSE]
Some(v) == [some |-> TRUE, val |-> v]

\* Point's ordering: by line, then by column
PointLess(p, q) == p.line < q.line \/ (p.line = q.line /\ p.column < q.column)
PointLeq(p, q) == p = q \/ PointLess(p, q)

\* RangeInclusive<Point>::contains / Match::contains
span_contains(span, p) == PointLeq(span.start, p) /\ PointLeq(p, span.end)

Anchor(p, side) == [point |-> p, side |-> side]

\* Selection::new: start and end anchors both at the given location
SelectionNew(ty, location, side) ==
    [ty |-> ty, start |-> Anchor(location, side), end |-> Anchor(location, side)]

\* Selection::update: only the end anchor moves
SelectionUpdate(sel, location, side) ==
    [sel EXCEPT !.end = Anchor(location, side)]

\* Selection::is_empty for a Simple selection
selection_is_empty(s, e) ==
    \/ s = e
    \/ /\ s.side = "Right" /\ e.side = "Left"
       /\ s.point.line = e.point.line
       /\ s.point.column + 1 = e.point.column

\* Point::grid_clamp(term, Boundary::Grid)
grid_clamp(t, p) ==
    IF p.line < -history_size(t) THEN Point(-history_size(t), 0)
    ELSE IF p.line > t.screen_lines - 1 THEN Point(t.screen_lines - 1, t.columns - 1)
    ELSE Point(p.line, Min(p.column, t.columns - 1))

\* Selection::range_simple
range_simple(s0, e0, columns) ==
    LET e == IF e0.side = "Left" /\ s0.point # e0.point
             THEN (IF e0.point.column = 0
                   THEN Point(e0.point.line - 1, columns - 1)
                   ELSE Point(e0.point.line, e0.point.column - 1))
             ELSE e0.point
        s1 == IF s0.side = "Right" /\ s0.point # e
              THEN Point(s0.point.line, s0.point.column + 1)
              ELSE s0.point
        s == IF s1.column = columns THEN Point(s1.line + 1, 0) ELSE s1
    IN  IF selection_is_empty(s0, e0) THEN None
        ELSE Some([start |-> s, end |-> e])

\* Selection::to_range for the Simple and Lines selection types (no wrapped
\* lines in the grid, so a Lines selection spans whole rows)
to_range(sel, t) ==
    LET swap == PointLess(sel.end.point, sel.start.point)
        s0 == IF swap THEN sel.end ELSE sel.start
        e0 == IF swap THEN sel.start ELSE sel.end
        s == Anchor(grid_clamp(t, s0.point), s0.side)
        e == Anchor(grid_clamp(t, e0.point), e0.side)
    IN  IF e0.point.line < -history_size(t) THEN None
        ELSE IF sel.ty = "Simple" THEN range_simple(s, e, t.columns)
        ELSE Some([start |-> Point(s.point.line, 0),
                   end |-> Point(e.point.line, t.columns - 1)])

\* the context margin of the hyperlink scanner, in lines
LinkMargin == 100

\* grid contents beyond the single-URL ones: two URLs on line 0, a URL on
\* the first scrollback line, and URLs wrapped over every line from
\* LinkMargin + 1, or from LinkMargin, lines above line 0 down to line 0
TwoUrls == MaxContent + 1
ScrollbackUrl == MaxContent + 2
LongUrl == MaxContent + 3
MarginUrl == MaxContent + 4

\* grid contents with styled cells on line 0 and the cursor on one of them
\* (the cells are in styled_cell): a wide character, its spacer, an inverse
\* glyph and a blank on a red background, with the cursor on the wide
\* character or on the inverse glyph; and a tab, an inverse glyph whose
\* foreground is the background colour, a dim inverse glyph and a plain
\* glyph, with the cursor on the tab or on the plain glyph
StyledWide == MaxContent + 5
StyledInverse == MaxContent + 6
StyledTab == MaxContent + 7
StyledPlain == MaxContent + 8

\* The URL-pattern matches of a grid content, in left-to-right scan order:
\* content 0 is blank, content c in 1..MaxContent holds one 8-cell URL on
\* line 0 from column c
url_matches(content) ==
    IF content = 0 THEN <<>>
    ELSE IF content <= MaxContent
    THEN << [start |-> Point(0, content), end |-> Point(0, content + 7)] >>
    ELSE IF content = TwoUrls
    THEN << [start |-> Point(0, 1), end |-> Point(0, 8)],
            [start |-> Point(0, 20), end |-> Point(0, 27)] >>
    ELSE IF content = ScrollbackUrl
    THEN << [start |-> Point(-1, 1), end |-> Point(-1, 8)] >>
    ELSE IF content = LongUrl
    THEN << [start |-> Point(-(LinkMargin + 1), 0), end |-> Point(0, 7)] >>
    ELSE IF content = MarginUrl
    THEN << [start |-> Point(-LinkMargin, 0), end |-> Point(0, 7)] >>
    ELSE <<>>

\* the scrollback lines a content needs above line 0
content_depth(content) ==
    IF url_matches(content) = <<>> THEN 0 ELSE -url_matches(content)[1].start.line

\* Flags::WRAPLINE of the last cell of a line: a URL longer than the rest of
\* its line wraps onto the next
wrapline(content, line) ==
    \E i \in 1..Len(url_matches(content)) :
       url_matches(content)[i].start.line <= line /\ line < url_matches(content)[i].end.line

\* Term::resize as the adapter sees it: the set of engine states it may
\* leave.  Unchanged dimensions are a no-op; a column change drops the
\* selection, a line change rotates it (kept or dropped); the display
\* offset is re-clamped by the grid.
term_resize(t, cols, lines) ==
    IF t.columns = cols /\ t.screen_lines = lines THEN {t}
    ELSE { [t EXCEPT !.columns = cols, !.screen_lines = lines,
                     !.display_offset = o, !.selection = s] :
             o \in 0..t.display_offset,
             s \in (IF t.columns # cols THEN {None} ELSE {t.selection, None}) }

---------------------------------------------------------------------------
(* TerminalBackend: pure parts *)

\* TerminalBackend::selection_point divides by the cell size
selection_point_panics(ts) == ts.cell_width = 0 \/ ts.cell_height = 0

\* selection_point without the clamp of the column to the last column
selection_point_unclamped(x, y, ts, display_offset) ==
    LET col == f32_as_usize(x) \div ts.cell_width
        line0 == f32_as_usize(y) \div ts.cell_height
        line == Min(line0, ts.num_lines - 1)
    IN  Point(line - display_offset, col)

\* TerminalBackend::selection_point (x, y are f32 pixels)
selection_point(x, y, ts, display_offset) ==
    LET col0 == f32_as_usize(x) \div ts.cell_width
        col == Min(col0, ts.num_cols - 1)
        line0 == f32_as_usize(y) \div ts.cell_height
        line == Min(line0, ts.num_lines - 1)
    IN  \* viewport_to_point
        Point(line - display_offset, col)

\* TerminalBackend::selection_side
selection_side(x, ts) ==
    LET cell_x == f32_as_usize(x) % ts.cell_width
        half_cell_width == ts.cell_width \div 2
    IN  IF cell_x > half_cell_width THEN "Right" ELSE "Left"

\* resize without its early return on unchanged arguments
resize_unguarded(sz, layout_size, font_size) ==
    LET lines == f32_div_as_u16(layout_size.height, f32_floor(font_size.height))
        cols == f32_div_as_u16(layout_size.width, f32_floor(font_size.width))
    IN  IF lines > 0 /\ cols > 0
        THEN [skipped |-> FALSE, applied |-> TRUE,
              size |-> [layout_size |-> layout_size,
                        cell_height |-> f32_as_u16(font_size.height),
                        cell_width |-> f32_as_u16(font_size.width),
                        num_lines |-> lines,
                        num_cols |-> cols]]
        ELSE [skipped |-> FALSE, applied |-> FALSE, size |-> sz]

\* resize with the lines computed from the layout width and the columns
\* from the layout height
resize_swapped(sz, layout_size, font_size) ==
    IF /\ layout_size = sz.layout_size
       /\ f32_as_u16(font_size.width) = sz.cell_width
       /\ f32_as_u16(font_size.height) = sz.cell_height
    THEN [skipped |-> TRUE, applied |-> FALSE, size |-> sz]
    ELSE
        LET lines == f32_div_as_u16(layout_size.width, f32_floor(font_size.height))
            cols == f32_div_as_u16(layout_size.height, f32_floor(font_size.width))
        IN  IF lines > 0 /\ cols > 0
            THEN [skipped |-> FALSE, applied |-> TRUE,
                  size |-> [layout_size |-> layout_size,
                            cell_height |-> f32_as_u16(font_size.height),
                            cell_width |-> f32_as_u16(font_size.width),
                            num_lines |-> lines,
                            num_cols |-> cols]]
            ELSE [skipped |-> FALSE, applied |-> FALSE, size |-> sz]

\* resize that stores and announces a grid with zero lines or columns
resize_zero_applied(sz, layout_size, font_size) ==
    IF /\ layout_size = sz.layout_size
       /\ f32_as_u16(font_size.width) = sz.cell_width
       /\ f32_as_u16(font_size.height) = sz.cell_height
    THEN [skipped |-> TRUE, applied |-> FALSE, size |-> sz]
    ELSE [skipped |-> FALSE, applied |-> TRUE,
          size |-> [layout_size |-> layout_size,
                    cell_height |-> f32_as_u16(font_size.height),
                    cell_width |-> f32_as_u16(font_size.width),
                    num_lines |-> f32_div_as_u16(layout_size.height,
                                                 f32_floor(font_size.height)),
                    num_cols |-> f32_div_as_u16(layout_size.width,
                                                f32_floor(font_size.width))]]

\* TerminalBackend::resize: [skipped, applied, size]
resize(sz, layout_size, font_size) ==
    IF /\ layout_size = sz.layout_size
       /\ f32_as_u16(font_size.width) = sz.cell_width
       /\ f32_as_u16(font_size.height) = sz.cell_height
    THEN [skipped |-> TRUE, applied |-> FALSE, size |-> sz]
    ELSE
        LET lines == f32_div_as_u16(layout_size.height, f32_floor(font_size.height))
            cols == f32_div_as_u16(layout_size.width, f32_floor(font_size.width))
        IN  IF lines > 0 /\ cols > 0
            THEN [skipped |-> FALSE, applied |-> TRUE,
                  size |-> [layout_size |-> layout_size,
                            cell_height |-> f32_as_u16(font_size.height),
                            cell_width |-> f32_as_u16(font_size.width),
                            num_lines |-> lines,
                            num_cols |-> cols]]
            ELSE [skipped |-> FALSE, applied |-> FALSE, size |-> sz]

RECURSIVE Repeat(_, _)
Repeat(s, n) == IF n <= 0 THEN <<>> ELSE s \o Repeat(s, n - 1)

\* scroll with the two cursor-key directions exchanged
scroll_reversed(t, delta_value) ==
    IF delta_value # 0
    THEN IF contains(t.mode, {ALTERNATE_SCROLL, ALT_SCREEN})
         THEN LET line_cmd == IF delta_value > 0 THEN 66 ELSE 65
                  content == Repeat(<<27, 79, line_cmd>>, Abs(delta_value))
              IN  [sent |-> notify(content), display_offset |-> t.display_offset]
         ELSE [sent |-> <<>>,
               display_offset |-> scroll_display(t, ScrollDelta(delta_value))]
    ELSE [sent |-> <<>>, display_offset |-> t.display_offset]

\* scroll that takes the cursor-key branch when either mode flag is set
scroll_either_flag(t, delta_value) ==
    IF delta_value # 0
    THEN IF t.mode \cap {ALTERNATE_SCROLL, ALT_SCREEN} # {}
         THEN LET line_cmd == IF delta_value > 0 THEN 65 ELSE 66
                  content == Repeat(<<27, 79, line_cmd>>, Abs(delta_value))
              IN  [sent |-> notify(content), display_offset |-> t.display_offset]
         ELSE [sent |-> <<>>,
               display_offset |-> scroll_display(t, ScrollDelta(delta_value))]
    ELSE [sent |-> <<>>, display_offset |-> t.display_offset]

\* TerminalBackend::scroll: [sent, display_offset]
scroll(t, delta_value) ==
    IF delta_value # 0
    THEN IF contains(t.mode, {ALTERNATE_SCROLL, ALT_SCREEN})
         THEN LET line_cmd == IF delta_value > 0 THEN 65 ELSE 66
                  content == Repeat(<<27, 79, line_cmd>>, Abs(delta_value))
              IN  [sent |-> notify(content), display_offset |-> t.display_offset]
         ELSE [sent |-> <<>>,
               display_offset |-> scroll_display(t, ScrollDelta(delta_value))]
    ELSE [sent |-> <<>>, display_offset |-> t.display_offset]

\* write that sends the bytes twice
write_twice(input) == notify(input \o input)

\* TerminalBackend::write
write(input) == notify(input)

---------------------------------------------------------------------------
(* Mouse protocol encoder *)

SHIFT == "SHIFT"
ALT == "ALT"
COMMAND == "COMMAND"

\* enum MouseButton discriminants
LeftButton == 0
MiddleButton == 1
RightButton == 2
LeftMove == 32

\* impl From<TermMode> for MouseMode
MouseMode(term_mode) ==
    IF contains(term_mode, {SGR_MOUSE}) THEN [kind |-> "Sgr", utf8 |-> FALSE]
    ELSE IF contains(term_mode, {UTF8_MOUSE}) THEN [kind |-> "Normal", utf8 |-> TRUE]
    ELSE [kind |-> "Normal", utf8 |-> FALSE]

\* the modifier offsets summed in process_mouse_report
mouse_mods(modifiers) ==
    (IF SHIFT \in modifiers THEN 4 ELSE 0)
    + (IF ALT \in modifiers THEN 8 ELSE 0)
    + (IF COMMAND \in modifiers THEN 16 ELSE 0)

\* decimal ASCII digits of a natural number (format!("{}"))
RECURSIVE DecNat(_)
DecNat(n) == IF n < 10 THEN <<48 + n>> ELSE DecNat(n \div 10) \o <<48 + (n % 10)>>

\* Display of an integer: a minus sign before the digits of a negative one
Dec(n) == IF n < 0 THEN <<45>> \o DecNat(-n) ELSE DecNat(n)

\* An outcome of an encoder: it panicked, or it sent these messages
Sent(msgs) == [panic |-> FALSE, msgs |-> msgs]
Panic == [panic |-> TRUE, msgs |-> <<>>]

\* sgr_mouse_report reporting the 0-based column and row
sgr_mouse_report_zero_based(point, button, pressed) ==
    LET c == IF pressed THEN 77 ELSE 109
        msg == <<27, 91, 60>> \o Dec(button) \o <<59>> \o Dec(point.column)
               \o <<59>> \o Dec(point.line) \o <<c>>
    IN  {Sent(notify(msg))}

\* TerminalBackend::sgr_mouse_report
sgr_mouse_report(point, button, pressed) ==
    LET c == IF pressed THEN 77 ELSE 109
        msg == <<27, 91, 60>> \o Dec(button) \o <<59>> \o Dec(point.column + 1)
               \o <<59>> \o Dec(point.line + 1) \o <<c>>
    IN  {Sent(notify(msg))}

\* mouse_pos_encode without the 32 + 1 offset of the coordinate
mouse_pos_encode_raw(pos0) ==
    <<(192 + (pos0 \div 64)) % 256, (128 + (pos0 % 64)) % 256>>

\* the closure mouse_pos_encode of normal_mouse_report
mouse_pos_encode(pos0) ==
    LET pos == 32 + 1 + pos0
        first == 192 + pos \div 64
        second == 128 + (pos % 64)
    IN  <<first % 256, second % 256>>

\* `32 + 1 + v as u8`: the cast wraps, the u8 addition overflows above 255
\* (a panic in a build with overflow checks, a wrap-around otherwise)
u8_pos(v) ==
    LET b == v % 256
    IN  IF 32 + 1 + b > 255 THEN {[panic |-> TRUE, byte |-> 0],
                                  [panic |-> FALSE, byte |-> (32 + 1 + b) % 256]}
        ELSE {[panic |-> FALSE, byte |-> 32 + 1 + b]}

\* normal_mouse_report that lets a coordinate equal to the maximum through
normal_mouse_report_off_by_one(point, button, is_utf8) ==
    LET max_point == IF is_utf8 THEN 2015 ELSE 223
    IN  IF point.line > max_point \/ point.column > max_point
        THEN {Sent(<<>>)}
        ELSE
          LET head == <<27, 91, 77, 32 + button>>
              cols == IF is_utf8 /\ point.column >= 95
                      THEN {[panic |-> FALSE, bytes |-> mouse_pos_encode(point.column)]}
                      ELSE {[panic |-> o.panic, bytes |-> <<o.byte>>] :
                              o \in u8_pos(point.column)}
              lines == IF is_utf8 /\ point.line >= 95
                       THEN {[panic |-> FALSE, bytes |-> mouse_pos_encode(point.line)]}
                       ELSE {[panic |-> o.panic, bytes |-> <<o.byte>>] :
                               o \in u8_pos(point.line)}
          IN  { IF c.panic \/ l.panic THEN Panic
                ELSE Sent(notify(head \o c.bytes \o l.bytes)) :
                  c \in cols, l \in lines }

\* TerminalBackend::normal_mouse_report: the set of its outcomes
normal_mouse_report(point, button, is_utf8) ==
    LET max_point == IF is_utf8 THEN 2015 ELSE 223
    IN  IF point.line >= max_point \/ point.column >= max_point
        THEN {Sent(<<>>)}
        ELSE
          LET head == <<27, 91, 77, 32 + button>>
              cols == IF is_utf8 /\ point.column >= 95
                      THEN {[panic |-> FALSE, bytes |-> mouse_pos_encode(point.column)]}
                      ELSE {[panic |-> o.panic, bytes |-> <<o.byte>>] :
                              o \in u8_pos(point.column)}
              lines == IF is_utf8 /\ point.line >= 95
                       THEN {[panic |-> FALSE, bytes |-> mouse_pos_encode(point.line)]}
                       ELSE {[panic |-> o.panic, bytes |-> <<o.byte>>] :
                               o \in u8_pos(point.line)}
          IN  { IF c.panic \/ l.panic THEN Panic
                ELSE Sent(notify(head \o c.bytes \o l.bytes)) :
                  c \in cols, l \in lines }

\* process_mouse_report that names the released button in the legacy encoding
process_mouse_report_names_release(mode, button, modifiers, point, pressed) ==
    LET mods == mouse_mods(modifiers)
        mm == MouseMode(mode)
    IN  IF mm.kind = "Sgr"
        THEN sgr_mouse_report(point, button + mods, pressed)
        ELSE normal_mouse_report(point, button + mods, mm.utf8)

\* TerminalBackend::process_mouse_report: the set of its outcomes
process_mouse_report(mode, button, modifiers, point, pressed) ==
    LET mods == mouse_mods(modifiers)
        mm == MouseMode(mode)
    IN  IF mm.kind = "Sgr"
        THEN sgr_mouse_report(point, button + mods, pressed)
        ELSE IF pressed
             THEN normal_mouse_report(point, button + mods, mm.utf8)
             ELSE normal_mouse_report(point, 3 + mods, mm.utf8)

---------------------------------------------------------------------------
(* Hyperlink scanner *)

\* Term::line_search_left: the first line of the wrapped line holding `line`
RECURSIVE line_search_left(_, _)
line_search_left(t, line) ==
    IF line > -history_size(t) /\ wrapline(t.content, line - 1)
    THEN line_search_left(t, line - 1)
    ELSE line

\* Term::line_search_right: the last line of the wrapped line holding `line`
RECURSIVE line_search_right(_, _)
line_search_right(t, line) ==
    IF line + 1 < t.screen_lines /\ wrapline(t.content, line)
    THEN line_search_right(t, line + 1)
    ELSE line

\* RegexIter::new(start, end, Direction::Right, ..): the matches found from
\* start to end; a URL that begins before start is not recognised, one that
\* runs past end is cut there
RegexIter(start, end, content) ==
    LET ms == SelectSeq(url_matches(content),
                        LAMBDA m : /\ PointLeq(start, m.start)
                                   /\ PointLeq(Point(m.start.line, m.start.column + 7), end))
    IN  [i \in 1..Len(ms) |->
           [start |-> ms[i].start,
            end |-> IF PointLeq(ms[i].end, end) THEN ms[i].end ELSE end]]

\* visible_regex_match_iter without the cut of the search range to the margin
visible_regex_match_iter_uncut(t) ==
    LET viewport_start == -t.display_offset
        viewport_end == viewport_start + (t.screen_lines - 1)
        start == Point(line_search_left(t, viewport_start), 0)
        end == Point(line_search_right(t, viewport_end), t.columns - 1)
    IN  SelectSeq(RegexIter(start, end, t.content),
                  LAMBDA m : m.end.line >= viewport_start /\ m.start.line <= viewport_end)

\* visible_regex_match_iter: the matches that intersect the viewport, found
\* in a search range cut to LinkMargin lines around it
visible_regex_match_iter(t) ==
    LET viewport_start == -t.display_offset
        viewport_end == viewport_start + (t.screen_lines - 1)
        start == Point(Max(line_search_left(t, viewport_start),
                           viewport_start - LinkMargin), 0)
        end == Point(Min(line_search_right(t, viewport_end),
                         viewport_end + LinkMargin), t.columns - 1)
    IN  SelectSeq(RegexIter(start, end, t.content),
                  LAMBDA m : m.end.line >= viewport_start /\ m.start.line <= viewport_end)

\* TerminalBackend::regex_match_at: the first visible match holding the point
regex_match_at(t, point) ==
    LET hits == SelectSeq(visible_regex_match_iter(t),
                          LAMBDA m: span_contains(m, point))
    IN  IF Len(hits) = 0 THEN None ELSE Some(hits[1])

---------------------------------------------------------------------------
(* Selected text *)

\* the text of a URL the pattern matches: "http://" and then letters
url_char(k) == IF k < 7 THEN <<104, 116, 116, 112, 58, 47, 47>>[k + 1] ELSE 97

\* ansi::Color::Named
Named(name) == [kind |-> "Named", name |-> name]

\* Cell: the character, the colours and the cell::Flags bits
Cell(c, fg, bg, flags) == [c |-> c, fg |-> fg, bg |-> bg, flags |-> flags]

\* Cell::default(): a blank in the default colours
CellDefault == Cell(32, Named("Foreground"), Named("Background"), {})

\* the cells of line 0 of the styled contents, by column
styled_cell(content, column) ==
    IF content \in {StyledWide, StyledInverse}
    THEN (IF column = 0
          THEN Cell(19990, Named("Foreground"), Named("Background"), {"WIDE_CHAR"})
          ELSE IF column = 1
          THEN Cell(32, Named("Foreground"), Named("Background"), {"WIDE_CHAR_SPACER"})
          ELSE IF column = 2
          THEN Cell(97, Named("Green"), Named("Background"), {"INVERSE"})
          ELSE IF column = 3
          THEN Cell(32, Named("Foreground"), Named("Red"), {})
          ELSE CellDefault)
    ELSE (IF column = 0
          THEN Cell(9, Named("Foreground"), Named("Background"), {})
          ELSE IF column = 1
          THEN Cell(98, Named("Background"), Named("Foreground"), {"INVERSE"})
          ELSE IF column = 2
          THEN Cell(100, Named("Foreground"), Named("Background"), {"DIM", "INVERSE"})
          ELSE IF column = 3
          THEN Cell(97, Named("Foreground"), Named("Background"), {})
          ELSE CellDefault)

\* grid.cursor.point: the cursor of a content
cursor_point(content) ==
    IF content = StyledInverse THEN Point(0, 2)
    ELSE IF content = StyledPlain THEN Point(0, 3)
    ELSE Point(0, 0)

\* grid.index(point).c: the character of a cell of the snapshot's grid, a
\* URL character inside a match and a blank elsewhere
cell_char(grid, point) ==
    LET ms == url_matches(grid.content)
        hit == {i \in 1..Len(ms) : span_contains(ms[i], point)}
    IN  IF grid.content \in {StyledWide, StyledInverse, StyledTab, StyledPlain}
        THEN (IF point.line = 0 THEN styled_cell(grid.content, point.column).c ELSE 32)
        ELSE IF hit = {} THEN 32
        ELSE LET m == ms[CHOOSE i \in hit : TRUE]
             IN  url_char((point.line - m.start.line) * grid.columns
                          + point.column - m.start.column)

\* grid.index(point): the cell at a point, plain outside the styled contents
grid_cell(grid, point) ==
    IF grid.content \in {StyledWide, StyledInverse, StyledTab, StyledPlain}
       /\ point.line = 0
    THEN styled_cell(grid.content, point.column)
    ELSE [CellDefault EXCEPT !.c = cell_char(grid, point)]

\* Grid::display_iter: the points of the visible lines, in display order
display_iter(grid) ==
    [i \in 1..(grid.screen_lines * grid.columns) |->
       Point(((i - 1) \div grid.columns) - grid.display_offset, (i - 1) % grid.columns)]

\* SelectionRange::contains that bounds the column on every line, as for a block
range_contains_block(range, point) ==
    /\ range.start.line <= point.line
    /\ range.end.line >= point.line
    /\ range.start.column <= point.column
    /\ range.end.column >= point.column

\* SelectionRange::contains for a range that is not a block
range_contains(range, point) ==
    /\ range.start.line <= point.line
    /\ range.end.line >= point.line
    /\ (range.start.column <= point.column \/ range.start.line # point.line)
    /\ (range.end.column >= point.column \/ range.end.line # point.line)

\* TerminalBackend::selectable_content over a snapshot
selectable_content(content) ==
    IF ~content.selectable_range.some THEN <<>>
    ELSE LET pts == SelectSeq(display_iter(content.grid),
                              LAMBDA p : range_contains(content.selectable_range.val, p))
         IN  [i \in 1..Len(pts) |-> cell_char(content.grid, pts[i])]

---------------------------------------------------------------------------
(* Theme: the palette and the resolution of colours (src/src/theme.rs) *)

\* impl Default for ColorPalette; a string is the sequence of its bytes
ColorPaletteDefault ==
    [
     foreground |-> <<35, 100, 56, 100, 56, 100, 56>>,  \* "#d8d8d8"
     background |-> <<35, 49, 56, 49, 56, 49, 56>>,  \* "#181818"
     black |-> <<35, 49, 56, 49, 56, 49, 56>>,  \* "#181818"
     red |-> <<35, 97, 99, 52, 50, 52, 50>>,  \* "#ac4242"
     green |-> <<35, 57, 48, 97, 57, 53, 57>>,  \* "#90a959"
     yellow |-> <<35, 102, 52, 98, 102, 55, 53>>,  \* "#f4bf75"
     blue |-> <<35, 54, 97, 57, 102, 98, 53>>,  \* "#6a9fb5"
     magenta |-> <<35, 97, 97, 55, 53, 57, 102>>,  \* "#aa759f"
     cyan |-> <<35, 55, 53, 98, 53, 97, 97>>,  \* "#75b5aa"
     white |-> <<35, 100, 56, 100, 56, 100, 56>>,  \* "#d8d8d8"
     bright_black |-> <<35, 54, 98, 54, 98, 54, 98>>,  \* "#6b6b6b"
     bright_red |-> <<35, 99, 53, 53, 53, 53, 53>>,  \* "#c55555"
     bright_green |-> <<35, 97, 97, 99, 52, 55, 52>>,  \* "#aac474"
     bright_yellow |-> <<35, 102, 101, 99, 97, 56, 56>>,  \* "#feca88"
     bright_blue |-> <<35, 56, 50, 98, 56, 99, 56>>,  \* "#82b8c8"
     bright_magenta |-> <<35, 99, 50, 56, 99, 98, 56>>,  \* "#c28cb8"
     bright_cyan |-> <<35, 57, 51, 100, 51, 99, 51>>,  \* "#93d3c3"
     bright_white |-> <<35, 102, 56, 102, 56, 102, 56>>,  \* "#f8f8f8"
     dim_foreground |-> <<35, 56, 50, 56, 52, 56, 50>>,  \* "#828482"
     dim_black |-> <<35, 48, 102, 48, 102, 48, 102>>,  \* "#0f0f0f"
     dim_red |-> <<35, 55, 49, 50, 98, 50, 98>>,  \* "#712b2b"
     dim_green |-> <<35, 53, 102, 54, 102, 51, 97>>,  \* "#5f6f3a"
     dim_yellow |-> <<35, 97, 49, 55, 101, 52, 100>>,  \* "#a17e4d"
     dim_blue |-> <<35, 52, 53, 54, 56, 55, 55>>,  \* "#456877"
     dim_magenta |-> <<35, 55, 48, 52, 100, 54, 56>>,  \* "#704d68"
     dim_cyan |-> <<35, 52, 100, 55, 55, 55, 48>>,  \* "#4d7770"
     dim_white |-> <<35, 56, 101, 56, 101, 56, 101>>,  \* "#8e8e8e"
     bright_foreground |-> None]

\* u8 arithmetic: the value kept, and whether the operation overflows
u8(v) == v % 256
u8_overflows(v) == v > 255

\* the colour-cube key `16 + r * 36 + g * 6 + b` and component
\* `if c == 0 { 0 } else { c * 40 + 55 }` of get_ansi256_colors
cube_index(r, g, b) == u8(u8(u8(16 + u8(r * 36)) + u8(g * 6)) + b)
cube_component_linear(c) == u8(c * 51)
cube_component(c) == IF c = 0 THEN 0 ELSE u8(u8(c * 40) + 55)

\* the grey ramp: key `index + i` and value `i * 10 + 8`
gray_index(i) == u8(232 + i)
gray_value(i) == u8(u8(i * 10) + 8)

\* some operation of get_ansi256_colors overflows its u8
ansi256_overflows ==
    \/ \E r \in 0..5, g \in 0..5, b \in 0..5 :
         \/ u8_overflows(r * 36) \/ u8_overflows(16 + r * 36)
         \/ u8_overflows(16 + r * 36 + g * 6)
         \/ u8_overflows(16 + r * 36 + g * 6 + b)
         \/ u8_overflows(r * 40) \/ u8_overflows(r * 40 + 55)
    \/ \E i \in 0..23 :
         \/ u8_overflows(i * 10) \/ u8_overflows(i * 10 + 8)
         \/ u8_overflows(232 + i)

\* TerminalTheme::get_ansi256_colors: the inserts in the order made, as
\* <<key, <<r, g, b>>>>; HashMap::insert lets the last insert of a key win
ansi256_inserts ==
    [n \in 1..216 |->
       LET r == (n - 1) \div 36
           g == ((n - 1) % 36) \div 6
           b == (n - 1) % 6
       IN  <<cube_index(r, g, b),
             <<cube_component(r), cube_component(g), cube_component(b)>>>>]
    \o [i \in 1..24 |->
          <<gray_index(i - 1),
            <<gray_value(i - 1), gray_value(i - 1), gray_value(i - 1)>>>>]

\* HashMap::get on the table
ansi256_get(index) ==
    LET at == {n \in 1..Len(ansi256_inserts) : ansi256_inserts[n][1] = index}
    IN  IF at = {} THEN None
        ELSE Some(ansi256_inserts[CHOOSE n \in at : \A m \in at : m <= n][2])

\* the value of a hexadecimal digit, -1 for any other byte
hex_digit(c) ==
    IF c \in 48..57 THEN c - 48
    ELSE IF c \in 97..102 THEN c - 87
    ELSE IF c \in 65..70 THEN c - 55
    ELSE -1

\* u8::from_str_radix(s, 16): an optional '+', then one or more digits, the
\* value within u8; None for Err
from_str_radix(s) ==
    LET digits == IF Len(s) > 0 /\ s[1] = 43 THEN Tail(s) ELSE s
    IN  IF digits = <<>> \/ \E k \in 1..Len(digits) : hex_digit(digits[k]) < 0
        THEN None
        ELSE IF Len(digits) = 1 THEN Some(hex_digit(digits[1]))
        ELSE IF 16 * hex_digit(digits[1]) + hex_digit(digits[2]) > 255 THEN None
        ELSE Some(16 * hex_digit(digits[1]) + hex_digit(digits[2]))

\* str::is_char_boundary of a byte offset into a string's UTF-8 bytes: the
\* start, the end, or a byte that is not a continuation byte
is_char_boundary(s, index) ==
    \/ index = 0
    \/ index = Len(s)
    \/ (index < Len(s) /\ s[index + 1] \notin 128..191)

\* the panic of &s[begin..end] when an end of the slice is inside a
\* character: it names the start if that is no boundary, else the end
SlicePanic(index) == [some |-> FALSE, panic |-> TRUE, byte_index |-> index]

\* the offset a slice &s[begin..end] fails on, -1 when it is taken
slice_error(s, begin, end) ==
    IF ~is_char_boundary(s, begin) THEN begin
    ELSE IF ~is_char_boundary(s, end) THEN end
    ELSE -1

\* hex_to_color: Some for Ok, None for Err, SlicePanic when a slice panics;
\* the three components are sliced and parsed in turn
hex_to_color(hex) ==
    IF Len(hex) # 7 THEN None
    ELSE IF slice_error(hex, 1, 3) >= 0 THEN SlicePanic(slice_error(hex, 1, 3))
    ELSE IF ~from_str_radix(SubSeq(hex, 2, 3)).some THEN None
    ELSE IF slice_error(hex, 3, 5) >= 0 THEN SlicePanic(slice_error(hex, 3, 5))
    ELSE IF ~from_str_radix(SubSeq(hex, 4, 5)).some THEN None
    ELSE IF slice_error(hex, 5, 7) >= 0 THEN SlicePanic(slice_error(hex, 5, 7))
    ELSE IF ~from_str_radix(SubSeq(hex, 6, 7)).some THEN None
    ELSE Some(<<from_str_radix(SubSeq(hex, 2, 3)).val,
                from_str_radix(SubSeq(hex, 4, 5)).val,
                from_str_radix(SubSeq(hex, 6, 7)).val>>)

\* the palette entry of an indexed colour 0..15
IndexedEntry(palette, index) ==
    IF index = 0 THEN palette.black
    ELSE IF index = 1 THEN palette.red
    ELSE IF index = 2 THEN palette.green
    ELSE IF index = 3 THEN palette.yellow
    ELSE IF index = 4 THEN palette.blue
    ELSE IF index = 5 THEN palette.magenta
    ELSE IF index = 6 THEN palette.cyan
    ELSE IF index = 7 THEN palette.white
    ELSE IF index = 8 THEN palette.bright_black
    ELSE IF index = 9 THEN palette.bright_red
    ELSE IF index = 10 THEN palette.bright_green
    ELSE IF index = 11 THEN palette.bright_yellow
    ELSE IF index = 12 THEN palette.bright_blue
    ELSE IF index = 13 THEN palette.bright_magenta
    ELSE IF index = 14 THEN palette.bright_cyan
    ELSE IF index = 15 THEN palette.bright_white
    ELSE palette.background

\* the palette entry of a named colour
NamedEntry(palette, name) ==
    IF name = "Foreground" THEN palette.foreground
    ELSE IF name = "Background" THEN palette.background
    ELSE IF name = "Black" THEN palette.black
    ELSE IF name = "Red" THEN palette.red
    ELSE IF name = "Green" THEN palette.green
    ELSE IF name = "Yellow" THEN palette.yellow
    ELSE IF name = "Blue" THEN palette.blue
    ELSE IF name = "Magenta" THEN palette.magenta
    ELSE IF name = "Cyan" THEN palette.cyan
    ELSE IF name = "White" THEN palette.white
    ELSE IF name = "BrightBlack" THEN palette.bright_black
    ELSE IF name = "BrightRed" THEN palette.bright_red
    ELSE IF name = "BrightGreen" THEN palette.bright_green
    ELSE IF name = "BrightYellow" THEN palette.bright_yellow
    ELSE IF name = "BrightBlue" THEN palette.bright_blue
    ELSE IF name = "BrightMagenta" THEN palette.bright_magenta
    ELSE IF name = "BrightCyan" THEN palette.bright_cyan
    ELSE IF name = "BrightWhite" THEN palette.bright_white
    ELSE IF name = "DimForeground" THEN palette.dim_foreground
    ELSE IF name = "DimBlack" THEN palette.dim_black
    ELSE IF name = "DimRed" THEN palette.dim_red
    ELSE IF name = "DimGreen" THEN palette.dim_green
    ELSE IF name = "DimYellow" THEN palette.dim_yellow
    ELSE IF name = "DimBlue" THEN palette.dim_blue
    ELSE IF name = "DimMagenta" THEN palette.dim_magenta
    ELSE IF name = "DimCyan" THEN palette.dim_cyan
    ELSE IF name = "DimWhite" THEN palette.dim_white
    ELSE IF name = "BrightForeground"
    THEN (IF palette.bright_foreground.some THEN palette.bright_foreground.val
          ELSE palette.foreground)
    ELSE palette.background

\* the outcome of get_color: a colour, or the panic with its message
Resolved(rgb) == [panic |-> FALSE, rgb |-> rgb]
InvalidColor(entry) == [panic |-> TRUE, invalid_color |-> entry]

\* TerminalTheme::get_color
get_color(palette, c) ==
    IF c.kind = "Spec" THEN Resolved(c.rgb)
    ELSE IF c.kind = "Indexed" /\ c.index > 15
    THEN (IF ansi256_get(c.index).some THEN Resolved(ansi256_get(c.index).val)
          ELSE Resolved(<<0, 0, 0>>))
    ELSE LET entry == IF c.kind = "Indexed" THEN IndexedEntry(palette, c.index)
                      ELSE NamedEntry(palette, c.name)
         IN  IF hex_to_color(entry).some THEN Resolved(hex_to_color(entry).val)
             ELSE IF hex_to_color(entry) = None THEN InvalidColor(entry)
             ELSE \* the panic of the slice inside hex_to_color
                  [panic |-> TRUE, byte_index |-> hex_to_color(entry).byte_index]

---------------------------------------------------------------------------
(* The keybinding table (crate::bindings) and the widget's state *)

APP_CURSOR == "APP_CURSOR"

\* InputKind
KeyCode(key) == [kind |-> "KeyCode", key |-> key]
Mouse(button) == [kind |-> "Mouse", button |-> button]

\* Binding<InputKind>
Binding(target, modifiers, include, exclude) ==
    [target |-> target, modifiers |-> modifiers,
     terminal_mode_include |-> include, terminal_mode_exclude |-> exclude]

\* BindingAction
Char(c) == [kind |-> "Char", c |-> c]
Esc(seq) == [kind |-> "Esc", seq |-> seq]
Paste == [kind |-> "Paste"]
LinkOpen == [kind |-> "LinkOpen"]
BindingIgnore == [kind |-> "Ignore"]

\* BindingsLayout::new(): the built-in bindings, of which the model keeps
\* Enter, the two scoped bindings of ArrowUp and the link-opening click
BindingsLayoutNew ==
    << <<Binding(KeyCode("Enter"), {}, {}, {}), Char(13)>>,
       <<Binding(KeyCode("ArrowUp"), {}, {APP_CURSOR}, {}), Esc(<<27, 79, 65>>)>>,
       <<Binding(KeyCode("ArrowUp"), {}, {}, {APP_CURSOR}), Esc(<<27, 91, 65>>)>>,
       <<Binding(Mouse("Primary"), {COMMAND}, {}, {}), LinkOpen>> >>

\* the first position of the table that holds the binding, 0 if none does
binding_position(layout, binding) ==
    IF \E i \in DOMAIN layout : layout[i][1] = binding
    THEN CHOOSE i \in DOMAIN layout :
           /\ layout[i][1] = binding
           /\ \A j \in 1..(i - 1) : layout[j][1] # binding
    ELSE 0

\* BindingsLayout::add_bindings: a binding equal to a registered one takes its
\* place, any other is appended
RECURSIVE add_bindings(_, _)
add_bindings(layout, bindings) ==
    IF bindings = <<>> THEN layout
    ELSE LET b == Head(bindings)
             at == binding_position(layout, b[1])
         IN  add_bindings(IF at = 0 THEN Append(layout, b)
                          ELSE [layout EXCEPT ![at] = b],
                          Tail(bindings))

\* whether a binding is triggered by the input under the terminal mode
is_triggered(binding, input, modifiers, terminal_mode) ==
    /\ binding.target = input
    /\ binding.modifiers = modifiers
    /\ contains(terminal_mode, binding.terminal_mode_include)
    /\ binding.terminal_mode_exclude \cap terminal_mode = {}

\* BindingsLayout::get_action: the action of the first triggered binding
get_action(layout, input, modifiers, terminal_mode) ==
    LET hits == {i \in DOMAIN layout :
                   is_triggered(layout[i][1], input, modifiers, terminal_mode)}
    IN  IF hits = {} THEN BindingIgnore
        ELSE layout[CHOOSE i \in hits : \A j \in hits : i <= j][2]

\* InputAction
BackendCall(command) == [kind |-> "BackendCall", cmd |-> command]
Ignore == [kind |-> "Ignore"]

\* char::encode_utf8 for scalar values below 0x10000
encode_utf8(c) ==
    IF c < 128 THEN <<c>>
    ELSE IF c < 2048 THEN <<192 + (c \div 64), 128 + (c % 64)>>
    ELSE <<224 + (c \div 4096), 128 + ((c \div 64) % 64), 128 + (c % 64)>>

\* process_keyboard_key that looks the key up as if no mode flag were set
process_keyboard_key_modeless(content, layout, key, modifiers, pressed) ==
    IF ~pressed THEN Ignore
    ELSE LET binding_action == get_action(layout, KeyCode(key), modifiers, {})
         IN  IF binding_action.kind = "Char"
             THEN BackendCall([op |-> "Write", input |-> encode_utf8(binding_action.c)])
             ELSE IF binding_action.kind = "Esc"
             THEN BackendCall([op |-> "Write", input |-> binding_action.seq])
             ELSE Ignore

\* process_keyboard_key
process_keyboard_key(content, layout, key, modifiers, pressed) ==
    IF ~pressed THEN Ignore
    ELSE LET binding_action == get_action(layout, KeyCode(key), modifiers,
                                          content.terminal_mode)
         IN  IF binding_action.kind = "Char"
             THEN BackendCall([op |-> "Write", input |-> encode_utf8(binding_action.c)])
             ELSE IF binding_action.kind = "Esc"
             THEN BackendCall([op |-> "Write", input |-> binding_action.seq])
             ELSE Ignore

\* InputAction::WriteToClipboard
WriteToClipboard(data) == [kind |-> "WriteToClipboard", data |-> data]

\* the names of the letter and digit keys of egui::Key
KeyLetters ==
    <<"A", "B", "C", "D", "E", "F", "G", "H", "I", "J", "K", "L", "M", "N", "O",
      "P", "Q", "R", "S", "T", "U", "V", "W", "X", "Y", "Z">>
KeyDigits ==
    <<"Num0", "Num1", "Num2", "Num3", "Num4", "Num5", "Num6", "Num7", "Num8", "Num9">>

\* egui::Key::from_name on the UTF-8 bytes of a text: a letter in either
\* case, a digit, a blank, and the names of Enter and ArrowUp; of the other
\* names egui knows none is the key of a binding of the model
key_from_name(text) ==
    IF Len(text) = 1 /\ text[1] \in 65..90 THEN Some(KeyLetters[text[1] - 64])
    ELSE IF Len(text) = 1 /\ text[1] \in 97..122 THEN Some(KeyLetters[text[1] - 96])
    ELSE IF Len(text) = 1 /\ text[1] \in 48..57 THEN Some(KeyDigits[text[1] - 47])
    ELSE IF text \in {<<32>>, <<83, 112, 97, 99, 101>>} THEN Some("Space")
    ELSE IF text \in {<<69, 110, 116, 101, 114>>, <<82, 101, 116, 117, 114, 110>>}
    THEN Some("Enter")
    ELSE IF text \in {<<226, 143, 182>>, <<65, 114, 114, 111, 119, 85, 112>>, <<85, 112>>}
    THEN Some("ArrowUp")
    ELSE None

\* process_text_event: the text is written unless it names a key that a
\* binding handles under the frame's modifiers and the snapshot's mode
process_text_event(text, modifiers, content, layout) ==
    IF key_from_name(text).some
       /\ get_action(layout, KeyCode(key_from_name(text).val), modifiers,
                     content.terminal_mode) # BindingIgnore
    THEN Ignore
    ELSE BackendCall([op |-> "Write", input |-> text])

\* process_keyboard_event, as built for a target other than macOS and iOS;
\* `modifiers` are the frame's, a key event carries its own
process_keyboard_event(event, content, layout, modifiers) ==
    IF event.kind = "Text"
    THEN process_text_event(event.text, modifiers, content, layout)
    ELSE IF event.kind = "Paste"
    THEN (IF {COMMAND, SHIFT} \subseteq modifiers
          THEN BackendCall([op |-> "Write", input |-> event.text])
          ELSE BackendCall([op |-> "Write", input |-> <<22>>]))
    ELSE IF event.kind = "Copy"
    THEN (IF {COMMAND, SHIFT} \subseteq modifiers
          THEN WriteToClipboard(selectable_content(content))
          ELSE BackendCall([op |-> "Write", input |-> <<3>>]))
    ELSE IF event.kind = "Key"
    THEN process_keyboard_key(content, layout, event.key, event.modifiers,
                              event.pressed)
    ELSE Ignore

\* TerminalViewState::default()
TerminalViewStateDefault ==
    [is_dragged |-> FALSE, scroll_pixels |-> 0,
     current_mouse_position_on_grid |-> Point(0, 0)]

\* egui::Response as far as the widget reads it: rect.min, rect.size() and
\* the click count behind double_clicked() and triple_clicked()
Response(origin, sz, clicks) == [origin |-> origin, size |-> sz, clicks |-> clicks]

\* no call of ui under way; `held` is the primary button as egui's events
\* have left it
FrameIdle ==
    [pc |-> "idle", layout |-> Response(<<0, 0>>, Size(0, 0), 1),
     font_size |-> Size(0, 0), font_type_size |-> 0, accepts |-> FALSE,
     modifiers |-> {}, events |-> <<>>, held |-> FALSE]

\* Color32::linear_multiply(factor), the factor in tenths: the premultiplied
\* colour and its alpha are scaled, so that the result is no opaque colour;
\* kept as the colour with the factor after it
linear_multiply(rgb, tenths) == rgb \o <<tenths>>

\* Shape::Rect(RectShape::filled(..)), Shape::LineSegment, Shape::text
RectFilled(min, sz, fill) == [shape |-> "Rect", min |-> min, size |-> sz, fill |-> fill]
LineSegment(from, to, hundredths, colour) ==
    [shape |-> "LineSegment", points |-> <<from, to>>,
     stroke |-> [width_hundredths |-> hundredths, color |-> colour]]
Text(pos, c, colour) == [shape |-> "Text", pos |-> pos, c |-> c, color |-> colour]

\* the body of show's loop that fills the background of every cell
show_cell_every_background(content, st, layout, palette, point) ==
    LET cell == grid_cell(content.grid, point)
        flags == cell.flags
        global_bg == get_color(palette, Named("Background")).rgb
        is_app_cursor_mode == APP_CURSOR \in content.terminal_mode
        is_inverse == "INVERSE" \in flags
        is_dim == flags \cap {"DIM", "BOLD"} # {}
        is_selected == content.selectable_range.some
                       /\ range_contains(content.selectable_range.val, point)
        is_hovered_hyperlink ==
            content.hovered_hyperlink.some
            /\ span_contains(content.hovered_hyperlink.val, point)
            /\ span_contains(content.hovered_hyperlink.val,
                             st.current_mouse_position_on_grid)
        x == layout.origin[1] + Px(content.terminal_size.cell_width * point.column)
        line_num == point.line + content.grid.display_offset
        y == layout.origin[2] + Px(content.terminal_size.cell_height * line_num)
        fg0 == get_color(palette, cell.fg).rgb
        bg0 == get_color(palette, cell.bg).rgb
        cell_width == IF "WIDE_CHAR" \in flags
                      THEN Px(content.terminal_size.cell_width) * 2
                      ELSE Px(content.terminal_size.cell_width)
        cell_height == Px(content.terminal_size.cell_height)
        fg1 == IF is_dim THEN linear_multiply(fg0, 7) ELSE fg0
        fg == IF is_inverse \/ is_selected THEN bg0 ELSE fg1
        bg == IF is_inverse \/ is_selected THEN fg1 ELSE bg0
        at_cursor == cursor_point(content.grid.content) = point
        cursor_cell_fg == grid_cell([content.grid EXCEPT !.content = content.cursor],
                                    cursor_point(content.cursor)).fg
    IN  IF "WIDE_CHAR_SPACER" \in flags THEN <<>>
        ELSE <<RectFilled(<<x, y>>, <<cell_width + Px(1), cell_height + Px(1)>>, bg)>>
             \o (IF is_hovered_hyperlink
                 THEN <<LineSegment(<<x, y + cell_height>>,
                                    <<x + cell_width, y + cell_height>>,
                                    15 * content.terminal_size.cell_height, fg)>>
                 ELSE <<>>)
             \o (IF at_cursor
                 THEN <<RectFilled(<<x, y>>, <<cell_width, cell_height>>,
                                   get_color(palette, cursor_cell_fg).rgb)>>
                 ELSE <<>>)
             \o (IF cell.c # 32 /\ cell.c # 9
                 THEN <<Text(<<x + (cell_width \div 2), y>>, cell.c,
                             IF at_cursor /\ is_app_cursor_mode THEN bg ELSE fg)>>
                 ELSE <<>>)

\* the body of the loop of TerminalView::show: the shapes of one cell
show_cell(content, st, layout, palette, point) ==
    LET cell == grid_cell(content.grid, point)
        flags == cell.flags
        global_bg == get_color(palette, Named("Background")).rgb
        is_app_cursor_mode == APP_CURSOR \in content.terminal_mode
        is_inverse == "INVERSE" \in flags
        is_dim == flags \cap {"DIM", "BOLD"} # {}
        is_selected == content.selectable_range.some
                       /\ range_contains(content.selectable_range.val, point)
        is_hovered_hyperlink ==
            content.hovered_hyperlink.some
            /\ span_contains(content.hovered_hyperlink.val, point)
            /\ span_contains(content.hovered_hyperlink.val,
                             st.current_mouse_position_on_grid)
        x == layout.origin[1] + Px(content.terminal_size.cell_width * point.column)
        line_num == point.line + content.grid.display_offset
        y == layout.origin[2] + Px(content.terminal_size.cell_height * line_num)
        fg0 == get_color(palette, cell.fg).rgb
        bg0 == get_color(palette, cell.bg).rgb
        cell_width == IF "WIDE_CHAR" \in flags
                      THEN Px(content.terminal_size.cell_width) * 2
                      ELSE Px(content.terminal_size.cell_width)
        cell_height == Px(content.terminal_size.cell_height)
        fg1 == IF is_dim THEN linear_multiply(fg0, 7) ELSE fg0
        fg == IF is_inverse \/ is_selected THEN bg0 ELSE fg1
        bg == IF is_inverse \/ is_selected THEN fg1 ELSE bg0
        at_cursor == cursor_point(content.grid.content) = point
        cursor_cell_fg == grid_cell([content.grid EXCEPT !.content = content.cursor],
                                    cursor_point(content.cursor)).fg
    IN  IF "WIDE_CHAR_SPACER" \in flags THEN <<>>
        ELSE (IF global_bg # bg
              THEN <<RectFilled(<<x, y>>, <<cell_width + Px(1), cell_height + Px(1)>>, bg)>>
              ELSE <<>>)
             \o (IF is_hovered_hyperlink
                 THEN <<LineSegment(<<x, y + cell_height>>,
                                    <<x + cell_width, y + cell_height>>,
                                    15 * content.terminal_size.cell_height, fg)>>
                 ELSE <<>>)
             \o (IF at_cursor
                 THEN <<RectFilled(<<x, y>>, <<cell_width, cell_height>>,
                                   get_color(palette, cursor_cell_fg).rgb)>>
                 ELSE <<>>)
             \o (IF cell.c # 32 /\ cell.c # 9
                 THEN <<Text(<<x + (cell_width \div 2), y>>, cell.c,
                             IF at_cursor /\ is_app_cursor_mode THEN bg ELSE fg)>>
                 ELSE <<>>)

\* the loop of show over content.grid.display_iter()
RECURSIVE show_cells(_, _, _, _, _)
show_cells(content, st, layout, palette, points) ==
    IF points = <<>> THEN <<>>
    ELSE show_cell(content, st, layout, palette, Head(points))
         \o show_cells(content, st, layout, palette, Tail(points))

\* TerminalView::show past the sync: the shapes handed to painter.extend,
\* the global background first
show(content, st, layout, palette) ==
    <<RectFilled(layout.origin,
                 <<layout.size.width, layout.size.height>>,
                 get_color(palette, Named("Background")).rgb)>>
    \o show_cells(content, st, layout, palette, display_iter(content.grid))

\* the primary button after the events: down after a press, up after a release
RECURSIVE primary_held(_, _)
primary_held(events, held) ==
    IF events = <<>> THEN held
    ELSE primary_held(Tail(events),
                      IF Head(events).kind = "PointerButton"
                         /\ Head(events).button = "Primary"
                      THEN Head(events).pressed ELSE held)

\* what a translation returns: the input actions, in order, and the state
Translated(actions, st) == [panic |-> FALSE, actions |-> actions, state |-> st]

\* build_start_select_command
build_start_select_command(layout, cursor_position) ==
    [op |-> "SelectStart",
     ty |-> IF layout.clicks = 2 THEN "Semantic"
            ELSE IF layout.clicks = 3 THEN "Lines" ELSE "Simple",
     x |-> cursor_position[1] - layout.origin[1],
     y |-> cursor_position[2] - layout.origin[2]]

\* process_left_button_pressed
process_left_button_pressed(st, layout, position) ==
    Translated(<<BackendCall(build_start_select_command(layout, position))>>,
               [st EXCEPT !.is_dragged = TRUE])

\* process_left_button_released
process_left_button_released(st, layout, content, layout_bindings, position, modifiers) ==
    LET st1 == [st EXCEPT !.is_dragged = FALSE]
    IN  IF layout.clicks \in {2, 3}
        THEN Translated(<<BackendCall(build_start_select_command(layout, position))>>, st1)
        ELSE IF get_action(layout_bindings, Mouse("Primary"), modifiers,
                           content.terminal_mode) = LinkOpen
        THEN Translated(<<BackendCall([op |-> "ProcessLink", action |-> "Open",
                                       point |-> st1.current_mouse_position_on_grid])>>,
                        st1)
        ELSE Translated(<<Ignore>>, st1)

\* process_left_button that starts a selection whatever the mode is
process_left_button_selecting(st, layout, content, layout_bindings, position, modifiers, pressed) ==
    IF pressed THEN process_left_button_pressed(st, layout, position)
    ELSE process_left_button_released(st, layout, content, layout_bindings,
                                      position, modifiers)

\* process_left_button
process_left_button(st, layout, content, layout_bindings, position, modifiers, pressed) ==
    IF content.terminal_mode \cap MOUSE_MODE # {}
    THEN Translated(<<BackendCall([op |-> "MouseReport", button |-> LeftButton,
                                   modifiers |-> modifiers,
                                   point |-> st.current_mouse_position_on_grid,
                                   pressed |-> pressed])>>, st)
    ELSE IF pressed THEN process_left_button_pressed(st, layout, position)
    ELSE process_left_button_released(st, layout, content, layout_bindings,
                                      position, modifiers)

\* process_button_click
process_button_click(st, layout, content, layout_bindings, button, position, modifiers, pressed) ==
    IF button = "Primary"
    THEN process_left_button(st, layout, content, layout_bindings, position,
                             modifiers, pressed)
    ELSE Translated(<<Ignore>>, st)

\* process_mouse_move
process_mouse_move(st, layout, content, position, modifiers) ==
    IF selection_point_panics(content.terminal_size)
    THEN [panic |-> TRUE, actions |-> <<>>, state |-> st]
    ELSE
    LET cursor_x == position[1] - layout.origin[1]
        cursor_y == position[2] - layout.origin[2]
        st1 == [st EXCEPT !.current_mouse_position_on_grid =
                  selection_point(cursor_x, cursor_y, content.terminal_size,
                                  content.grid.display_offset)]
        moved == IF ~st1.is_dragged THEN <<>>
                 ELSE IF "MOUSE_MOTION" \in content.terminal_mode /\ modifiers = {}
                 THEN <<BackendCall([op |-> "MouseReport", button |-> LeftMove,
                                     modifiers |-> modifiers,
                                     point |-> st1.current_mouse_position_on_grid,
                                     pressed |-> TRUE])>>
                 ELSE <<BackendCall([op |-> "SelectUpdate",
                                     x |-> cursor_x, y |-> cursor_y])>>
        hover == IF modifiers = {COMMAND}
                 THEN <<BackendCall([op |-> "ProcessLink", action |-> "Hover",
                                     point |-> st1.current_mouse_position_on_grid])>>
                 ELSE <<>>
    IN  Translated(moved \o hover, st1)

\* f32::ceil and f32::trunc of a pixel value, as whole numbers
f32_ceil(v) == IF v >= 0 THEN (v + Sub - 1) \div Sub ELSE -((-v) \div Sub)
f32_trunc_div(a, b) == IF a >= 0 THEN a \div b ELSE -((-a) \div b)

\* the % of f32: the remainder has the sign of the dividend
f32_rem(a, b) == IF a >= 0 THEN a % b ELSE -((-a) % b)

\* process_mouse_wheel that keeps the whole accumulated distance
process_mouse_wheel_keeps_pixels(st, font_size, unit, delta_y) ==
    IF unit = "Line"
    THEN Translated(<<BackendCall(
             [op |-> "Scroll",
              delta |-> (IF delta_y >= 0 THEN 1 ELSE -1) * f32_ceil(Abs(delta_y))])>>, st)
    ELSE IF unit = "Point"
    THEN LET scroll_pixels == st.scroll_pixels - delta_y
             lines == f32_trunc_div(scroll_pixels, font_size)
             st1 == [st EXCEPT !.scroll_pixels = scroll_pixels]
         IN  IF lines # 0
             THEN Translated(<<BackendCall([op |-> "Scroll", delta |-> -lines])>>, st1)
             ELSE Translated(<<Ignore>>, st1)
    ELSE Translated(<<Ignore>>, st)

\* process_mouse_wheel, for a positive font size; delta_y is delta.y;
\* signum is 1 for +0.0
process_mouse_wheel(st, font_size, unit, delta_y) ==
    IF unit = "Line"
    THEN Translated(<<BackendCall(
             [op |-> "Scroll",
              delta |-> (IF delta_y >= 0 THEN 1 ELSE -1) * f32_ceil(Abs(delta_y))])>>, st)
    ELSE IF unit = "Point"
    THEN LET scroll_pixels == st.scroll_pixels - delta_y
             lines == f32_trunc_div(scroll_pixels, font_size)
             st1 == [st EXCEPT !.scroll_pixels = f32_rem(scroll_pixels, font_size)]
         IN  IF lines # 0
             THEN Translated(<<BackendCall([op |-> "Scroll", delta |-> -lines])>>, st1)
             ELSE Translated(<<Ignore>>, st1)
    ELSE Translated(<<Ignore>>, st)

\* the match of process_input on the event: the frame's modifiers go to the
\* pointer moves, a key or a button event carries its own
translate(event, st, fr, content, layout_bindings) ==
    IF event.kind \in {"Text", "Key", "Copy", "Paste"}
    THEN Translated(<<process_keyboard_event(event, content, layout_bindings,
                                             fr.modifiers)>>, st)
    ELSE IF event.kind = "PointerButton"
    THEN process_button_click(st, fr.layout, content, layout_bindings, event.button,
                              event.pos, event.modifiers, event.pressed)
    ELSE IF event.kind = "PointerMoved"
    THEN process_mouse_move(st, fr.layout, content, event.pos, fr.modifiers)
    ELSE IF event.kind = "MouseWheel"
    THEN process_mouse_wheel(st, fr.font_type_size, event.unit, event.delta_y)
    ELSE Translated(<<>>, st)

\* the order of ui with show ahead of process_input
frame_next_show_first(step) ==
    IF step = "load" THEN "focus"
    ELSE IF step = "focus" THEN "resize"
    ELSE IF step = "resize" THEN "sync"
    ELSE IF step = "sync" THEN "render"
    ELSE IF step = "render" THEN "input"
    ELSE IF step = "input" THEN "store"
    ELSE "idle"

\* the order of ui, as the step that follows a step: the state is loaded,
\* then self.focus(..).resize(..).process_input(..).show(..), show being a
\* sync and the painting, then the state is stored
frame_next(step) ==
    IF step = "load" THEN "focus"
    ELSE IF step = "focus" THEN "resize"
    ELSE IF step = "resize" THEN "input"
    ELSE IF step = "input" THEN "sync"
    ELSE IF step = "sync" THEN "render"
    ELSE IF step = "render" THEN "store"
    ELSE "idle"

---------------------------------------------------------------------------
(* The engine lock *)

\* FairMutex::new: nobody holds `next` (the lease) or `data`
MutexFree == [next |-> {}, data |-> {}]

\* the UI thread is between two backend calls and the engine holds no lock
BackendFree ==
    /\ session.state = "open"
    /\ ui_pc = "idle"
    /\ engine_pc = "idle"
    /\ mutex = MutexFree

\* A whole critical section as one step: term.lock(), the body A, and the
\* drop of the guard, with the lock free before and after
Locked(A) ==
    /\ session.state = "open"
    /\ ui_pc = "idle"
    /\ engine_pc = "idle"
    /\ mutex = MutexFree
    /\ A
    /\ UNCHANGED <<mutex, ui_pc, engine_pc, other_vars>>

---------------------------------------------------------------------------
(* State after TerminalBackend::new *)

\* Term::new(config, &terminal_size, ..): TermMode::default() has
\* ALTERNATE_SCROLL set; the grid is blank, at the bottom, with no scrollback
TermNew(ts) ==
    [mode |-> {ALTERNATE_SCROLL},
     columns |-> ts.num_cols,
     screen_lines |-> ts.num_lines,
     display_offset |-> 0,
     history |-> 0,
     selection |-> None,
     content |-> 0]

\* term.grid().clone()
Grid(t) ==
    [content |-> t.content, display_offset |-> t.display_offset,
     columns |-> t.columns, screen_lines |-> t.screen_lines]

\* term.grid_mut().cursor_cell().clone(): the cell under the cursor is part
\* of the grid's content
cursor_cell(t) == t.content

Init ==
    /\ size = TerminalSizeDefault
    /\ term = TermNew(TerminalSizeDefault)
    /\ last_content =
         [grid |-> Grid(TermNew(TerminalSizeDefault)),
          selectable_range |-> None,
          terminal_mode |-> TermNew(TerminalSizeDefault).mode,
          terminal_size |-> TerminalSizeDefault,
          cursor |-> cursor_cell(TermNew(TerminalSizeDefault)),
          hovered_hyperlink |-> None]
    /\ sent = <<>>
    /\ cmd = [op |-> "New"]
    /\ panicked = FALSE
    /\ tick = 0
    /\ mutex = MutexFree
    /\ ui_pc = "idle"
    /\ engine_pc = "idle"
    /\ session = [state |-> "open", id |-> 1]
    /\ event_loop = "running"
    /\ subscription = "recv"
    /\ event_receiver = <<>>
    /\ pty_event_proxy = [open |-> TRUE, msgs |-> <<>>]
    /\ repaints = 0
    /\ theme = ColorPaletteDefault
    /\ color = None
    /\ bindings_layout = BindingsLayoutNew
    /\ state = TerminalViewStateDefault
    /\ input_event = [kind |-> "None"]
    /\ input_action = Ignore
    /\ frame = FrameIdle
    /\ pending = <<>>
    /\ memory = TerminalViewStateDefault

---------------------------------------------------------------------------
(* Dispatch: one action per BackendCommand *)

\* BackendCommand::Write(input)
Write(input) ==
    /\ ~panicked
    /\ tick' = 1 - tick
    /\ sent' = write(input)
    /\ term' = [term EXCEPT !.display_offset = scroll_display(term, ScrollBottom)]
    /\ cmd' = [op |-> "Write", input |-> input]
    /\ UNCHANGED <<size, last_content, panicked>>

\* Scroll that also refreshes the snapshot's grid
ScrollRefreshing(delta) ==
    /\ ~panicked
    /\ tick' = 1 - tick
    /\ sent' = scroll(term, delta).sent
    /\ term' = [term EXCEPT !.display_offset = scroll(term, delta).display_offset]
    /\ last_content' = [last_content EXCEPT !.grid = Grid(term')]
    /\ cmd' = [op |-> "Scroll", delta |-> delta]
    /\ UNCHANGED <<size, panicked>>

\* BackendCommand::Scroll(delta)
Scroll(delta) ==
    /\ ~panicked
    /\ tick' = 1 - tick
    /\ sent' = scroll(term, delta).sent
    /\ term' = [term EXCEPT !.display_offset = scroll(term, delta).display_offset]
    /\ cmd' = [op |-> "Scroll", delta |-> delta]
    /\ UNCHANGED <<size, last_content, panicked>>

\* BackendCommand::Resize(layout_size, font_size)
Resize(layout_size, font_size) ==
    /\ ~panicked
    /\ tick' = 1 - tick
    /\ LET r == resize(size, layout_size, font_size)
       IN  IF r.applied
           THEN /\ size' = r.size
                /\ sent' = on_resize(WindowSize(r.size))
                /\ term' \in term_resize(term, r.size.num_cols, r.size.num_lines)
           ELSE /\ sent' = <<>>
                /\ UNCHANGED <<size, term>>
    /\ cmd' = [op |-> "Resize", layout_size |-> layout_size, font_size |-> font_size]
    /\ UNCHANGED <<last_content, panicked>>

\* BackendCommand::SelectStart(selection_type, x, y): start_selection
SelectStart(selection_type, x, y) ==
    /\ ~panicked
    /\ tick' = 1 - tick
    /\ IF selection_point_panics(size)
       THEN /\ panicked' = TRUE
            /\ UNCHANGED term
       ELSE /\ term' = [term EXCEPT !.selection =
                          Some(SelectionNew(selection_type,
                                            selection_point(x, y, size, term.display_offset),
                                            selection_side(x, size)))]
            /\ UNCHANGED panicked
    /\ sent' = <<>>
    /\ cmd' = [op |-> "SelectStart", ty |-> selection_type, x |-> x, y |-> y]
    /\ UNCHANGED <<size, last_content>>

\* update_selection that starts a selection when none is active
SelectUpdateCreates(x, y) ==
    /\ ~panicked
    /\ tick' = 1 - tick
    /\ IF selection_point_panics(size)
       THEN /\ panicked' = TRUE
            /\ UNCHANGED term
       ELSE /\ term' = [term EXCEPT !.selection =
                          IF term.selection.some
                          THEN Some(SelectionUpdate(term.selection.val,
                                      selection_point(x, y, size, term.display_offset),
                                      selection_side(x, size)))
                          ELSE Some(SelectionNew("Simple",
                                      selection_point(x, y, size, term.display_offset),
                                      selection_side(x, size)))]
            /\ UNCHANGED panicked
    /\ sent' = <<>>
    /\ cmd' = [op |-> "SelectUpdate", x |-> x, y |-> y]
    /\ UNCHANGED <<size, last_content>>

\* BackendCommand::SelectUpdate(x, y): update_selection
SelectUpdate(x, y) ==
    /\ ~panicked
    /\ tick' = 1 - tick
    /\ IF ~term.selection.some
       THEN UNCHANGED <<term, panicked>>
       ELSE IF selection_point_panics(size)
       THEN /\ panicked' = TRUE
            /\ UNCHANGED term
       ELSE /\ term' = [term EXCEPT !.selection =
                          Some(SelectionUpdate(term.selection.val,
                                               selection_point(x, y, size, term.display_offset),
                                               selection_side(x, size)))]
            /\ UNCHANGED panicked
    /\ sent' = <<>>
    /\ cmd' = [op |-> "SelectUpdate", x |-> x, y |-> y]
    /\ UNCHANGED <<size, last_content>>

\* BackendCommand::ProcessLink(link_action, point): process_link_action;
\* open_link panics when the OS opener fails
ProcessLink(link_action, point) ==
    /\ ~panicked
    /\ tick' = 1 - tick
    /\ \/ /\ link_action = "Hover"
          /\ last_content' = [last_content EXCEPT
                                !.hovered_hyperlink = regex_match_at(term, point)]
          /\ UNCHANGED panicked
       \/ /\ link_action = "Clear"
          /\ last_content' = [last_content EXCEPT !.hovered_hyperlink = None]
          /\ UNCHANGED panicked
       \/ /\ link_action = "Open"
          /\ IF last_content.hovered_hyperlink.some
             THEN \E opened \in BOOLEAN : panicked' = ~opened
             ELSE UNCHANGED panicked
          /\ UNCHANGED last_content
    /\ sent' = <<>>
    /\ cmd' = [op |-> "ProcessLink", action |-> link_action, point |-> point]
    /\ UNCHANGED <<size, term>>

\* MouseReport that reads the mode of the engine
MouseReportLive(button, modifiers, point, pressed) ==
    /\ ~panicked
    /\ tick' = 1 - tick
    /\ \E o \in process_mouse_report(term.mode, button, modifiers, point, pressed) :
          /\ sent' = o.msgs
          /\ panicked' = o.panic
    /\ cmd' = [op |-> "MouseReport", button |-> button, modifiers |-> modifiers,
               point |-> point, pressed |-> pressed]
    /\ UNCHANGED <<size, term, last_content>>

\* BackendCommand::MouseReport(button, modifiers, point, pressed)
MouseReport(button, modifiers, point, pressed) ==
    /\ ~panicked
    /\ tick' = 1 - tick
    /\ \E o \in process_mouse_report(last_content.terminal_mode, button,
                                     modifiers, point, pressed) :
          /\ sent' = o.msgs
          /\ panicked' = o.panic
    /\ cmd' = [op |-> "MouseReport", button |-> button, modifiers |-> modifiers,
               point |-> point, pressed |-> pressed]
    /\ UNCHANGED <<size, term, last_content>>


\* sync that drops the hovered hyperlink with the rest of the old snapshot
SyncDropsHover ==
    /\ ~panicked
    /\ tick' = 1 - tick
    /\ last_content' =
         [grid |-> Grid(term),
          selectable_range |-> IF term.selection.some
                               THEN to_range(term.selection.val, term)
                               ELSE None,
          cursor |-> cursor_cell(term),
          terminal_mode |-> term.mode,
          terminal_size |-> size,
          hovered_hyperlink |-> None]
    /\ sent' = <<>>
    /\ cmd' = [op |-> "Sync"]
    /\ UNCHANGED <<size, term, panicked>>

\* sync that leaves the snapshot's geometry as it was
SyncStaleSize ==
    /\ ~panicked
    /\ tick' = 1 - tick
    /\ last_content' =
         [last_content EXCEPT
            !.grid = Grid(term),
            !.selectable_range = IF term.selection.some
                                 THEN to_range(term.selection.val, term)
                                 ELSE None,
            !.cursor = cursor_cell(term),
            !.terminal_mode = term.mode]
    /\ sent' = <<>>
    /\ cmd' = [op |-> "Sync"]
    /\ UNCHANGED <<size, term, panicked>>

\* TerminalBackend::sync
Sync ==
    /\ ~panicked
    /\ tick' = 1 - tick
    /\ last_content' =
         [last_content EXCEPT
            !.grid = Grid(term),
            !.selectable_range = IF term.selection.some
                                 THEN to_range(term.selection.val, term)
                                 ELSE None,
            !.cursor = cursor_cell(term),
            !.terminal_mode = term.mode,
            !.terminal_size = size]
    /\ sent' = <<>>
    /\ cmd' = [op |-> "Sync"]
    /\ UNCHANGED <<size, term, panicked>>

---------------------------------------------------------------------------
(* The engine's event-loop thread, one locked mutation per step *)

\* a line of an anchor moved by the grid scrolling one line up
rotate(sel) ==
    IF ~sel.some THEN sel
    ELSE Some([sel.val EXCEPT !.start.point.line = @ - 1, !.end.point.line = @ - 1])

\* The process output sets or resets a mode flag; entering or leaving the
\* alternate screen swaps the grids and drops the selection
EngineSetMode(flag) ==
    /\ ~panicked
    /\ tick' = 1 - tick
    /\ IF flag = ALT_SCREEN
       THEN \E o \in 0..(IF ALT_SCREEN \in term.mode THEN term.history ELSE 0) :
              term' = [term EXCEPT !.mode = IF flag \in @ THEN @ \ {flag} ELSE @ \cup {flag},
                                   !.selection = None,
                                   !.display_offset = o]
       ELSE term' = [term EXCEPT !.mode = IF flag \in @ THEN @ \ {flag} ELSE @ \cup {flag}]
    /\ sent' = <<>>
    /\ cmd' = [op |-> "Engine"]
    /\ UNCHANGED <<size, last_content, panicked>>

\* The process output rewrites the grid; with `scrolls` a line moves into the
\* scrollback, and a viewport that is scrolled back follows its content
EngineOutput(content, scrolls) ==
    /\ ~panicked
    /\ tick' = 1 - tick
    /\ content # term.content
    /\ content_depth(content)
         <= (IF scrolls /\ ALT_SCREEN \notin term.mode /\ term.history < MaxHistory
             THEN term.history + 1 ELSE history_size(term))
    /\ IF scrolls /\ ALT_SCREEN \notin term.mode /\ term.history < MaxHistory
       THEN term' = [term EXCEPT !.content = content,
                                 !.history = @ + 1,
                                 !.display_offset = IF @ > 0 THEN @ + 1 ELSE 0,
                                 !.selection = rotate(@)]
       ELSE term' = [term EXCEPT !.content = content]
    /\ sent' = <<>>
    /\ cmd' = [op |-> "Engine"]
    /\ UNCHANGED <<size, last_content, panicked>>

\* lines of output that push more than the hyperlink margin into scrollback
LongOutput == LinkMargin + 1

\* The process output fills the screen with more than LinkMargin lines in one
\* locked parse: the grid is rewritten and LongOutput lines move into the
\* scrollback
EngineFlood(content) ==
    /\ ~panicked
    /\ tick' = 1 - tick
    /\ ALT_SCREEN \notin term.mode
    /\ term.history <= MaxHistory
    /\ content_depth(content) <= term.history + LongOutput
    /\ term' = [term EXCEPT
                  !.content = content,
                  !.history = @ + LongOutput,
                  !.display_offset = IF @ > 0 THEN @ + LongOutput ELSE 0,
                  !.selection =
                     IF ~@.some THEN @
                     ELSE Some([@.val EXCEPT !.start.point.line = @ - LongOutput,
                                             !.end.point.line = @ - LongOutput])]
    /\ sent' = <<>>
    /\ cmd' = [op |-> "Engine"]
    /\ UNCHANGED <<size, last_content, panicked>>

---------------------------------------------------------------------------
(* Inputs *)

\* layout sizes of the widget: a window, a sliver narrower than a cell
LayoutSizes == {Size(Px(800), Px(600)), Size(Px(5), Px(600))}

\* font measures: 10x20, a fractional 7.5x15.5, and a glyph under one pixel wide
FontSizes == {Size(Px(10), Px(20)), Size(PxHalf(7), PxHalf(15)), Size(Sub \div 2, Px(20))}

\* pointer positions relative to the widget origin, in f32 pixels
SelectPixels == {<<PxHalf(4), Px(0)>>, <<Px(17), PxHalf(25)>>, <<Px(100000), Px(100000)>>,
                 <<-Px(1), -Px(1)>>}

SelectionTypes == {"Simple", "Lines"}

ScrollDeltas == (-MaxDelta)..MaxDelta

WriteInputs == {<<>>, <<97>>, <<27, 91, 65>>}

LinkActions == {"Hover", "Clear", "Open"}
LinkPoints == {Point(0, 1), Point(0, 60)}

MouseButtons == {LeftButton, RightButton}
ModifierSets == {{}, {SHIFT}, {ALT}, {COMMAND}, {SHIFT, ALT, COMMAND}}
MouseCoords == {0, 94, 95, 222, 223, 2014, 2015}
MousePoints ==
    {Point(c, c) : c \in MouseCoords}
    \cup {Point(l, 7) : l \in {-1, 95, 223, 2015}}
    \cup {Point(3, c) : c \in {95, 223, 2015}}

Contents == 0..MaxContent

---------------------------------------------------------------------------
(* Specifications *)

\* Geometry: resize negotiation and the pixel-to-grid mapping
NextGeometry ==
    \/ \E l \in LayoutSizes, f \in FontSizes : Locked(Resize(l, f))
    \/ \E ty \in SelectionTypes, p \in SelectPixels : Locked(SelectStart(ty, p[1], p[2]))
    \/ \E p \in SelectPixels : Locked(SelectUpdate(p[1], p[2]))
    \/ \E d \in {-1, 1} : Locked(Scroll(d))
    \/ \E c \in Contents : Locked(EngineOutput(c, TRUE))

SpecGeometry == Init /\ [][NextGeometry]_vars

\* Scrolling and writing under the engine's screen modes
NextScroll ==
    \/ \E d \in ScrollDeltas : Locked(Scroll(d))
    \/ \E i \in WriteInputs : Locked(Write(i))
    \/ \E f \in {ALT_SCREEN, ALTERNATE_SCROLL} : Locked(EngineSetMode(f))
    \/ \E c \in Contents, g \in BOOLEAN : Locked(EngineOutput(c, g))
    \/ \E p \in {<<PxHalf(4), Px(0)>>} : Locked(SelectStart("Simple", p[1], p[2]))
    \/ \E pt \in LinkPoints : Locked(ProcessLink("Hover", pt))
    \/ Locked(Sync)

SpecScroll == Init /\ [][NextScroll]_vars

\* Mouse reporting under the mouse modes of the last snapshot
NextMouse ==
    \/ \E b \in MouseButtons, m \in ModifierSets, pt \in MousePoints, pr \in BOOLEAN :
          Locked(MouseReport(b, m, pt, pr))
    \/ \E f \in {SGR_MOUSE, UTF8_MOUSE} : Locked(EngineSetMode(f))
    \/ Locked(Sync)

SpecMouse == Init /\ [][NextMouse]_vars

\* pointer positions for selections: left and right halves of cells
SelectPixelsFine == {<<PxHalf(4), Px(0)>>, <<PxHalf(5), Px(0)>>, <<Px(17), PxHalf(25)>>}

\* Selecting text: selections, the engine scrolling under them, and sync
NextSelect ==
    \/ \E l \in {Size(Px(800), Px(600))}, f \in {Size(Px(10), Px(20))} : Locked(Resize(l, f))
    \/ \E ty \in SelectionTypes, p \in SelectPixelsFine : Locked(SelectStart(ty, p[1], p[2]))
    \/ \E p \in SelectPixelsFine : Locked(SelectUpdate(p[1], p[2]))
    \/ \E c \in Contents : Locked(EngineOutput(c, TRUE))
    \/ Locked(Sync)

SpecSelect == Init /\ [][NextSelect]_vars

\* grid contents and hover points of the hyperlink scanner
LinkContents == {0, 1, TwoUrls, ScrollbackUrl, LongUrl, MarginUrl}
HoverPoints == {Point(0, 3), Point(0, 22), Point(-1, 3), Point(-LinkMargin, 40),
                Point(-(LinkMargin + 1), 0)}

\* wheel deltas of half the margin
LinkHalf == LinkMargin \div 2

\* Hovering links over a deep scrollback
NextLink ==
    \/ \E c \in LinkContents : Locked(EngineOutput(c, TRUE))
    \/ \E c \in LinkContents : Locked(EngineFlood(c))
    \/ \E d \in {-LinkHalf, LinkHalf} : Locked(Scroll(d))
    \/ \E pt \in HoverPoints : Locked(ProcessLink("Hover", pt))
    \/ \E pt \in {Point(0, 3)} : Locked(ProcessLink("Clear", pt))

SpecLink == Init /\ [][NextLink]_vars

---------------------------------------------------------------------------
(* The lock taken apart: FairMutex::lock, lease, try_lock_unfair, drop *)

\* everything but the lock and the two threads' positions
data_vars == <<size, term, last_content, sent, cmd, panicked, tick, other_vars>>

\* the UI thread calls process_command or sync, which begins with term.lock()
UiRequest ==
    /\ ~panicked
    /\ ui_pc = "idle"
    /\ ui_pc' = "next"
    /\ UNCHANGED <<data_vars, mutex, engine_pc>>

\* FairMutex::lock, first half: self.next.lock() blocks until `next` is free
UiLease ==
    /\ ~panicked
    /\ ui_pc = "next"
    /\ mutex.next = {}
    /\ mutex' = [mutex EXCEPT !.next = @ \cup {"ui"}]
    /\ ui_pc' = "data"
    /\ UNCHANGED <<data_vars, engine_pc>>

\* FairMutex::lock, second half: self.data.lock() blocks until `data` is
\* free, and `next` is dropped on return
UiLock ==
    /\ ~panicked
    /\ ui_pc = "data"
    /\ mutex.data = {}
    /\ mutex' = [next |-> mutex.next \ {"ui"}, data |-> mutex.data \cup {"ui"}]
    /\ ui_pc' = "locked"
    /\ UNCHANGED <<data_vars, engine_pc>>

\* the body of process_command or sync under the guard, and the drop of the
\* guard at its end (also when the body unwinds)
UiRun(A) ==
    /\ ui_pc = "locked"
    /\ A
    /\ mutex' = [mutex EXCEPT !.data = @ \ {"ui"}]
    /\ ui_pc' = "idle"
    /\ UNCHANGED <<engine_pc, other_vars>>

\* the event loop thread has bytes to read and asks for the lease
EngineRequest ==
    /\ ~panicked
    /\ engine_pc = "idle"
    /\ engine_pc' = "next"
    /\ UNCHANGED <<data_vars, mutex, ui_pc>>

\* FairMutex::lease: self.next.lock() blocks until `next` is free
EngineLease ==
    /\ ~panicked
    /\ engine_pc = "next"
    /\ mutex.next = {}
    /\ mutex' = [mutex EXCEPT !.next = @ \cup {"engine"}]
    /\ engine_pc' = "lease"
    /\ UNCHANGED <<data_vars, ui_pc>>

\* a try_lock that takes `data` while its holder is still inside
EngineTryLockBarging ==
    /\ ~panicked
    /\ engine_pc = "lease"
    /\ mutex' = [mutex EXCEPT !.data = @ \cup {"engine"}]
    /\ engine_pc' = "locked"
    /\ UNCHANGED <<data_vars, ui_pc>>

\* try_lock_unfair succeeds: `data` is free
EngineTryLock ==
    /\ ~panicked
    /\ engine_pc = "lease"
    /\ mutex.data = {}
    /\ mutex' = [mutex EXCEPT !.data = @ \cup {"engine"}]
    /\ engine_pc' = "locked"
    /\ UNCHANGED <<data_vars, ui_pc>>

\* try_lock_unfair fails with the read buffer full: lock_unfair blocks
EngineBlock ==
    /\ ~panicked
    /\ engine_pc = "lease"
    /\ mutex.data # {}
    /\ engine_pc' = "data"
    /\ UNCHANGED <<data_vars, mutex, ui_pc>>

\* lock_unfair returns: `data` has become free
EngineLock ==
    /\ ~panicked
    /\ engine_pc = "data"
    /\ mutex.data = {}
    /\ mutex' = [mutex EXCEPT !.data = @ \cup {"engine"}]
    /\ engine_pc' = "locked"
    /\ UNCHANGED <<data_vars, ui_pc>>

\* the parser advances the terminal under the guard
EngineRun(A) ==
    /\ engine_pc = "locked"
    /\ A
    /\ UNCHANGED <<mutex, ui_pc, engine_pc, other_vars>>

\* the read ends and keeps the lease it should have dropped
EngineReleaseKeepsLease ==
    /\ ~panicked
    /\ engine_pc \in {"lease", "locked"}
    /\ mutex' = [mutex EXCEPT !.data = @ \ {"engine"}]
    /\ engine_pc' = "idle"
    /\ UNCHANGED <<data_vars, ui_pc>>

\* the read ends (nothing left to read, or MAX_LOCKED_READ bytes parsed):
\* the guard, if taken, and the lease are dropped
EngineRelease ==
    /\ ~panicked
    /\ engine_pc \in {"lease", "locked"}
    /\ mutex' = [next |-> mutex.next \ {"engine"}, data |-> mutex.data \ {"engine"}]
    /\ engine_pc' = "idle"
    /\ UNCHANGED <<data_vars, ui_pc>>

\* The two threads contending for the engine
NextLock ==
    \/ UiRequest
    \/ UiLease
    \/ UiLock
    \/ \E d \in {-1, 1} : UiRun(Scroll(d))
    \/ UiRun(Sync)
    \/ EngineRequest
    \/ EngineLease
    \/ EngineTryLock
    \/ EngineBlock
    \/ EngineLock
    \/ \E c \in Contents, scrolls \in BOOLEAN : EngineRun(EngineOutput(c, scrolls))
    \/ EngineRelease

SpecLock == Init /\ [][NextLock]_vars

\* Scheduling: parking_lot's mutex is eventually fair, so a thread blocked in
\* next.lock() gets `next` when it is freed again and again (SF on UiLease);
\* a thread blocked in data.lock() takes `data` once it stays free (WF on
\* UiLock and EngineLock);
\* the event loop ends every read, at the latest after MAX_LOCKED_READ bytes
\* (WF on EngineRelease)
SpecLockFair ==
    /\ SpecLock
    /\ SF_vars(UiLease)
    /\ WF_vars(UiLock)
    /\ WF_vars(EngineLock)
    /\ WF_vars(EngineRelease)

---------------------------------------------------------------------------
(* Resolving colours *)

\* TerminalView::set_theme(TerminalTheme::new(palette)): the builder call that
\* precedes the painting
SetTheme(palette) ==
    /\ ~panicked
    /\ color = None
    /\ theme' = palette
    /\ tick' = 1 - tick
    /\ sent' = <<>>
    /\ cmd' = [op |-> "SetTheme"]
    /\ UNCHANGED <<size, term, last_content, panicked, mutex, ui_pc, engine_pc,
                   session, event_loop, subscription, event_receiver,
                   pty_event_proxy, repaints, color, input_vars, frame_vars>>

\* self.theme.get_color(c) while the widget paints; its panic is the UI
\* thread's
GetColor(c) ==
    /\ ~panicked
    /\ color = None
    /\ color' = Some(get_color(theme, c))
    /\ panicked' = get_color(theme, c).panic
    /\ tick' = 1 - tick
    /\ sent' = <<>>
    /\ cmd' = [op |-> "GetColor", color |-> c]
    /\ UNCHANGED <<size, term, last_content, mutex, ui_pc, engine_pc,
                   session, event_loop, subscription, event_receiver,
                   pty_event_proxy, repaints, theme, input_vars, frame_vars>>

\* palette entries: well formed in both letter cases; too short, too long and
\* empty; no '#'; a non-digit; signs in place of digits; seven bytes with a
\* two-byte character across the end of the first slice, and with two-byte
\* characters that fill the slices
PaletteEntries ==
    { <<35, 102, 102, 56, 48, 48, 48>>,        \* "#ff8000"
      <<35, 65, 66, 99, 100, 69, 70>>,         \* "#ABcdEF"
      <<35, 102, 102, 56, 48, 48>>,            \* "#ff800"
      <<35, 102, 102, 56, 48, 48, 48, 48>>,    \* "#ff80000"
      <<>>,                                    \* ""
      <<120, 102, 102, 56, 48, 48, 48>>,       \* "xff8000"
      <<35, 103, 103, 56, 48, 48, 48>>,        \* "#gg8000"
      <<35, 43, 102, 43, 56, 43, 48>>,         \* "#+f+8+0"
      <<35, 97, 195, 169, 49, 50, 51>>,        \* "#a(e acute)123"
      <<35, 195, 169, 195, 169, 195, 169>> }   \* "#" and three e acute

\* palettes: the default one, and it with one entry of each kind replaced
Palettes ==
    {ColorPaletteDefault}
    \cup {[ColorPaletteDefault EXCEPT !.red = e] : e \in PaletteEntries}
    \cup {[ColorPaletteDefault EXCEPT !.foreground = e] : e \in PaletteEntries}
    \cup {[ColorPaletteDefault EXCEPT !.bright_foreground = Some(e)] : e \in PaletteEntries}

\* ansi::Color values: every index, every named colour the palette knows,
\* one it does not, and a direct RGB
NamedColors ==
    {"Foreground", "Background", "Black", "Red", "Green", "Yellow", "Blue",
     "Magenta", "Cyan", "White", "BrightBlack", "BrightRed", "BrightGreen",
     "BrightYellow", "BrightBlue", "BrightMagenta", "BrightCyan", "BrightWhite",
     "BrightForeground", "DimForeground", "DimBlack", "DimRed", "DimGreen",
     "DimYellow", "DimBlue", "DimMagenta", "DimCyan", "DimWhite", "Cursor"}
Colors ==
    {[kind |-> "Indexed", index |-> i] : i \in 0..255}
    \cup {[kind |-> "Named", name |-> n] : n \in NamedColors}
    \cup {[kind |-> "Spec", rgb |-> <<1, 2, 3>>]}

NextTheme ==
    \/ \E palette \in Palettes : SetTheme(palette)
    \/ \E c \in Colors : GetColor(c)

SpecTheme == Init /\ [][NextTheme]_vars

---------------------------------------------------------------------------
(* Translating input: process_input, one action per egui::Event *)

\* self.backend.process_command(cmd) for the commands the translation builds
process_command(c) ==
    IF c.op = "Write" THEN Write(c.input)
    ELSE IF c.op = "MouseReport"
    THEN MouseReport(c.button, c.modifiers, c.point, c.pressed)
    ELSE IF c.op = "SelectStart" THEN SelectStart(c.ty, c.x, c.y)
    ELSE IF c.op = "Scroll" THEN Scroll(c.delta)
    ELSE IF c.op = "SelectUpdate" THEN SelectUpdate(c.x, c.y)
    ELSE IF c.op = "ProcessLink" THEN ProcessLink(c.action, c.point)
    ELSE FALSE

\* the loop body of process_input past the translation: a BackendCall is
\* dispatched, WriteToClipboard hands the text to egui's context (the backend
\* is not touched), Ignore does nothing
Dispatch(action) ==
    IF action.kind = "BackendCall" THEN process_command(action.cmd)
    ELSE /\ ~panicked
         /\ tick' = 1 - tick
         /\ sent' = <<>>
         /\ cmd' = IF action.kind = "WriteToClipboard"
                   THEN [op |-> "WriteToClipboard", data |-> action.data]
                   ELSE [op |-> "Ignore"]
         /\ UNCHANGED <<size, term, last_content, panicked>>

\* TerminalView::add_bindings
AddBindings(bindings) ==
    /\ ~panicked
    /\ bindings_layout' = add_bindings(bindings_layout, bindings)
    /\ tick' = 1 - tick
    /\ sent' = <<>>
    /\ cmd' = [op |-> "AddBindings", bindings |-> bindings]
    /\ UNCHANGED <<size, term, last_content, panicked, mutex, ui_pc, engine_pc,
                   session, event_loop, subscription, event_receiver,
                   pty_event_proxy, repaints, theme_vars,
                   state, input_event, input_action, frame_vars>>

\* egui::Event::Key { key, pressed, modifiers }
KeyEvent(key, modifiers, pressed) ==
    /\ session.state = "open"
    /\ ui_pc = "idle"
    /\ engine_pc = "idle"
    /\ mutex = MutexFree
    /\ input_event' = [kind |-> "Key", key |-> key, modifiers |-> modifiers,
                       pressed |-> pressed]
    /\ input_action' = process_keyboard_key(last_content, bindings_layout,
                                            key, modifiers, pressed)
    /\ Dispatch(input_action')
    /\ UNCHANGED <<mutex, ui_pc, engine_pc, session, event_loop, subscription,
                   event_receiver, pty_event_proxy, repaints, theme_vars,
                   bindings_layout, state, frame_vars>>

\* bindings a caller registers: one with the key of a built-in binding, two
\* new ones that differ in their mode scope only
RegisteredBindings ==
    { <<Binding(KeyCode("ArrowUp"), {}, {APP_CURSOR}, {}), Char(233)>>,
      <<Binding(KeyCode("ArrowUp"), {}, {APP_CURSOR}, {}), Paste>>,
      <<Binding(KeyCode("C"), {SHIFT}, {}, {}), Char(66)>>,
      <<Binding(KeyCode("C"), {SHIFT}, {}, {}), Esc(<<27, 91, 53, 126>>)>>,
      <<Binding(KeyCode("C"), {SHIFT}, {}, {APP_CURSOR}), Char(75)>> }

Keys == {"ArrowUp", "C"}
KeyModifiers == {{}, {SHIFT}, {SHIFT, ALT}}

NextKeys ==
    \/ \E b1 \in RegisteredBindings : AddBindings(<<b1>>)
    \/ \E b1, b2 \in RegisteredBindings :
         b1 # b2 /\ b1[1] = b2[1] /\ AddBindings(<<b1, b2>>)
    \/ \E key \in Keys, modifiers \in KeyModifiers, pressed \in BOOLEAN :
         KeyEvent(key, modifiers, pressed)
    \/ Locked(EngineSetMode(APP_CURSOR))
    \/ Locked(Sync)

SpecKeys == Init /\ [][NextKeys]_vars

\* egui::Event::MouseWheel { unit, delta }, with the size of the widget's font
WheelEvent(font_size, unit, delta_y) ==
    /\ BackendFree
    /\ input_event' = [kind |-> "MouseWheel", unit |-> unit, delta_y |-> delta_y,
                       font_size |-> font_size]
    /\ LET t == process_mouse_wheel(state, font_size, unit, delta_y)
       IN  /\ state' = t.state
           /\ input_action' = t.actions[1]
    /\ Dispatch(input_action')
    /\ UNCHANGED <<mutex, ui_pc, engine_pc, session, event_loop, subscription,
                   event_receiver, pty_event_proxy, repaints, theme_vars,
                   bindings_layout, frame_vars>>

\* wheel deltas: half a pixel, less and more than a line, several lines
WheelDeltas == {0, PxHalf(0), -PxHalf(0), Px(7), -Px(7), Px(25), -Px(25)}
WheelUnits == {"Line", "Point", "Page"}
WheelFonts == {Px(10), Px(4)}

NextWheel ==
    \/ \E f \in WheelFonts, u \in WheelUnits, d \in WheelDeltas : WheelEvent(f, u, d)
    \/ Locked(EngineSetMode(ALT_SCREEN))

SpecWheel == Init /\ [][NextWheel]_vars

---------------------------------------------------------------------------
(* A frame: TerminalView::ui, one action per step of it *)

\* a step of ui that calls nothing of the backend
FrameStep(name) ==
    /\ ~panicked
    /\ tick' = 1 - tick
    /\ sent' = <<>>
    /\ cmd' = [op |-> "Frame", step |-> name]
    /\ UNCHANGED <<size, term, last_content, panicked>>

\* what no step of a frame changes
frame_fixed == <<mutex, ui_pc, engine_pc, session, event_loop, subscription,
                 event_receiver, pty_event_proxy, repaints, theme_vars,
                 bindings_layout>>

\* ui is called: the painter is allocated and the state is read from egui's
\* memory; the frame's input is what egui collected since the last frame
\* font: font_measure (the cell) and font_type().size of the widget's font
FrameLoad(layout, font, accepts, modifiers, events) ==
    /\ BackendFree
    /\ frame.pc = "idle"
    /\ frame' = [pc |-> frame_next("load"), layout |-> layout,
                 font_size |-> font.measure, font_type_size |-> font.size,
                 accepts |-> accepts,
                 modifiers |-> modifiers, events |-> events,
                 held |-> primary_held(events, frame.held)]
    /\ state' = memory
    /\ FrameStep("load")
    /\ UNCHANGED <<frame_fixed, input_event, input_action, pending, memory>>

\* focus: request_focus or surrender_focus
FrameFocus ==
    /\ BackendFree
    /\ frame.pc = "focus"
    /\ frame' = [frame EXCEPT !.pc = frame_next("focus")]
    /\ FrameStep("focus")
    /\ UNCHANGED <<frame_fixed, input_vars, pending, memory>>

\* resize: BackendCommand::Resize(layout.rect.size(), font_measure)
FrameResize ==
    /\ BackendFree
    /\ frame.pc = "resize"
    /\ frame' = [frame EXCEPT !.pc = frame_next("resize")]
    /\ Resize(frame.layout.size, frame.font_size)
    /\ UNCHANGED <<frame_fixed, input_vars, pending, memory>>

\* process_input that translates the events without the focus or the pointer
FrameEventUnfocused ==
    /\ BackendFree
    /\ frame.pc = "input"
    /\ pending = <<>>
    /\ frame.events # <<>>
    /\ LET t == translate(Head(frame.events), state, frame, last_content,
                          bindings_layout)
       IN  /\ ~panicked
           /\ tick' = 1 - tick
           /\ sent' = <<>>
           /\ cmd' = [op |-> "Frame", step |-> "event"]
           /\ panicked' = t.panic
           /\ pending' = t.actions
           /\ state' = t.state
           /\ input_action' = IF t.actions = <<>> THEN Ignore ELSE Head(t.actions)
    /\ input_event' = Head(frame.events)
    /\ frame' = [frame EXCEPT !.events = Tail(@)]
    /\ UNCHANGED <<size, term, last_content, frame_fixed, memory>>

\* process_input: the next event of the frame is translated
FrameEvent ==
    /\ BackendFree
    /\ frame.pc = "input"
    /\ frame.accepts
    /\ pending = <<>>
    /\ frame.events # <<>>
    /\ LET t == translate(Head(frame.events), state, frame, last_content,
                          bindings_layout)
       IN  /\ ~panicked
           /\ tick' = 1 - tick
           /\ sent' = <<>>
           /\ cmd' = [op |-> "Frame", step |-> "event"]
           /\ panicked' = t.panic
           /\ pending' = t.actions
           /\ state' = t.state
           /\ input_action' = IF t.actions = <<>> THEN Ignore ELSE Head(t.actions)
    /\ input_event' = Head(frame.events)
    /\ frame' = [frame EXCEPT !.events = Tail(@)]
    /\ UNCHANGED <<size, term, last_content, frame_fixed, memory>>

\* process_input: the next input action of the event is carried out
FrameDispatch ==
    /\ BackendFree
    /\ frame.pc = "input"
    /\ pending # <<>>
    /\ Dispatch(Head(pending))
    /\ pending' = Tail(pending)
    /\ UNCHANGED <<frame_fixed, input_vars, frame, memory>>

\* process_input returns: at once without the focus or the pointer, after
\* the last event otherwise
FrameInputDone ==
    /\ BackendFree
    /\ frame.pc = "input"
    /\ pending = <<>>
    /\ frame.events = <<>> \/ ~frame.accepts
    /\ frame' = [frame EXCEPT !.pc = frame_next("input"), !.events = <<>>]
    /\ FrameStep("input")
    /\ UNCHANGED <<frame_fixed, input_vars, pending, memory>>

\* show: self.backend.sync()
FrameSync ==
    /\ BackendFree
    /\ frame.pc = "sync"
    /\ frame' = [frame EXCEPT !.pc = frame_next("sync")]
    /\ Sync
    /\ UNCHANGED <<frame_fixed, input_vars, pending, memory>>

\* show: the snapshot is painted, painter.extend(shapes) with the shapes of
\* show(last_content, state, frame.layout, theme); the painter keeps nothing
\* the widget reads back
FrameRender ==
    /\ BackendFree
    /\ frame.pc = "render"
    /\ frame' = [frame EXCEPT !.pc = frame_next("render")]
    /\ FrameStep("render")
    /\ UNCHANGED <<frame_fixed, input_vars, pending, memory>>

\* the state goes back to egui's memory and ui returns
FrameStore ==
    /\ BackendFree
    /\ frame.pc = "store"
    /\ frame' = [frame EXCEPT !.pc = frame_next("store")]
    /\ memory' = state
    /\ FrameStep("store")
    /\ UNCHANGED <<frame_fixed, input_vars, pending>>

\* pointer positions in the window; the widget's origin is FrameOrigin
FrameOrigin == <<Px(5), Px(5)>>
PointerNear == <<Px(30), Px(5)>>
PointerFar == <<Px(40), PxHalf(50)>>

PointerMoved(pos) == [kind |-> "PointerMoved", pos |-> pos]
PointerButton(button, pos, modifiers, pressed) ==
    [kind |-> "PointerButton", button |-> button, pos |-> pos,
     modifiers |-> modifiers, pressed |-> pressed]
MouseWheel(unit, delta_y) == [kind |-> "MouseWheel", unit |-> unit, delta_y |-> delta_y]
KeyPressed(key) == [kind |-> "Key", key |-> key, modifiers |-> {}, pressed |-> TRUE]
EventText(text) == [kind |-> "Text", text |-> text]
EventPaste(text) == [kind |-> "Paste", text |-> text]
EventCopy == [kind |-> "Copy"]

\* what egui hands to one frame: the click count of the Response, whether
\* the widget has the focus and the pointer, the modifiers held, the events
FrameInput4(clicks, accepts, modifiers, events) ==
    [clicks |-> clicks, accepts |-> accepts, modifiers |-> modifiers,
     events |-> events]
FrameInputs ==
    { FrameInput4(1, TRUE, {}, <<>>),
      FrameInput4(1, TRUE, {},
          <<PointerMoved(PointerNear), PointerButton("Primary", PointerNear, {}, TRUE)>>),
      FrameInput4(1, TRUE, {},
          <<PointerMoved(PointerFar), PointerButton("Primary", PointerFar, {SHIFT}, FALSE)>>),
      FrameInput4(1, TRUE, {COMMAND},
          <<PointerMoved(PointerFar), PointerButton("Primary", PointerFar, {COMMAND}, FALSE)>>),
      FrameInput4(3, TRUE, {},
          <<PointerButton("Primary", PointerNear, {}, FALSE), KeyPressed("ArrowUp")>>),
      FrameInput4(1, TRUE, {},
          <<PointerButton("Secondary", PointerNear, {}, TRUE), EventText(<<97>>)>>),
      FrameInput4(1, FALSE, {},
          <<PointerButton("Primary", PointerNear, {}, TRUE), EventText(<<97>>)>>),
      FrameInput4(1, FALSE, {},
          <<KeyPressed("ArrowUp"), MouseWheel("Point", Px(25))>>),
      FrameInput4(1, TRUE, {}, <<EventPaste(<<120, 121>>), EventCopy>>),
      FrameInput4(1, TRUE, {SHIFT, COMMAND}, <<EventPaste(<<120, 121>>), EventCopy>>) }

NextFrame ==
    \/ \E i \in FrameInputs :
         FrameLoad(Response(FrameOrigin, Size(Px(800), Px(600)), i.clicks),
                   [measure |-> Size(Px(10), Px(20)), size |-> Px(14)],
                   i.accepts, i.modifiers, i.events)
    \/ FrameFocus
    \/ FrameResize
    \/ FrameEvent
    \/ FrameDispatch
    \/ FrameInputDone
    \/ FrameSync
    \/ FrameRender
    \/ FrameStore
    \/ \E f \in {"MOUSE_REPORT_CLICK", "MOUSE_MOTION"} : Locked(EngineSetMode(f))

SpecFrame == Init /\ [][NextFrame]_vars

\* Frames of a widget over a terminal with scrollback: the wheel scrolls the
\* viewport back, the pointer moves to the top row and the primary button is
\* pressed there
ReportInputs ==
    { FrameInput4(1, TRUE, {}, <<MouseWheel("Line", Px(1))>>),
      FrameInput4(1, TRUE, {},
          <<PointerMoved(PointerNear), PointerButton("Primary", PointerNear, {}, TRUE)>>) }

NextReport ==
    \/ \E i \in ReportInputs :
         FrameLoad(Response(FrameOrigin, Size(Px(800), Px(600)), i.clicks),
                   [measure |-> Size(Px(10), Px(20)), size |-> Px(14)],
                   i.accepts, i.modifiers, i.events)
    \/ FrameFocus
    \/ FrameResize
    \/ FrameEvent
    \/ FrameDispatch
    \/ FrameInputDone
    \/ FrameSync
    \/ FrameRender
    \/ FrameStore
    \/ \E f \in {"MOUSE_REPORT_CLICK", SGR_MOUSE} : Locked(EngineSetMode(f))
    \/ \E c \in Contents : Locked(EngineOutput(c, TRUE))

SpecReport == Init /\ [][NextReport]_vars

\* Frames of a widget four cells wide and one line high over styled grid
\* contents: a frame without the focus, a drag of the selection from the
\* first cell to the third, and a hover with the command key held
RenderPointerLeft == <<Px(7), Px(10)>>
RenderPointerRight == <<Px(30), Px(10)>>
RenderInputs ==
    { FrameInput4(1, FALSE, {}, <<>>),
      FrameInput4(1, TRUE, {},
          <<PointerMoved(RenderPointerLeft),
            PointerButton("Primary", RenderPointerLeft, {}, TRUE),
            PointerMoved(RenderPointerRight)>>),
      FrameInput4(1, TRUE, {COMMAND}, <<PointerMoved(RenderPointerRight)>>) }
RenderContents == {0, 1, StyledWide, StyledInverse, StyledTab, StyledPlain}

NextRender ==
    \/ \E i \in RenderInputs :
         FrameLoad(Response(FrameOrigin, Size(Px(40), Px(20)), i.clicks),
                   [measure |-> Size(Px(10), Px(20)), size |-> Px(14)],
                   i.accepts, i.modifiers, i.events)
    \/ FrameFocus
    \/ FrameResize
    \/ FrameEvent
    \/ FrameDispatch
    \/ FrameInputDone
    \/ FrameSync
    \/ FrameRender
    \/ FrameStore
    \/ Locked(EngineSetMode(APP_CURSOR))
    \/ \E c \in RenderContents : Locked(EngineOutput(c, FALSE))

SpecRender == Init /\ [][NextRender]_vars

---------------------------------------------------------------------------
(* The life of a session: new, the two threads, drop *)

\* most events the engine may have queued and the caller may have been sent
MaxEvents == 2

\* Msg::Shutdown on the event loop's channel
MsgShutdown == [msg |-> "Shutdown"]

\* the backend's fields, the engine and its lock
core_vars == <<size, term, last_content, panicked, mutex, ui_pc, engine_pc,
               view_vars>>

\* EventProxy::send_event: `let _ = self.0.send(event)`, which fails silently
\* once the receiver, owned by the forwarding thread, is gone
send_event(queue, event) ==
    IF subscription = "recv" THEN Append(queue, event) ELSE queue

\* the Term (behind the Arc the backend and the event loop share) or the event
\* loop still hold an EventProxy
SendersAlive == session.state = "open" \/ event_loop \in {"running", "shutdown"}

\* the forwarding loop with recv() failing (every sender is gone and the
\* queue is empty): `if let Ok(..)` does not match and the loop goes round
ForwardClosed ==
    /\ subscription = "recv"
    /\ event_receiver = <<>>
    /\ ~SendersAlive
    /\ tick' = 1 - tick
    /\ sent' = <<>>
    /\ cmd' = [op |-> "RecvError"]
    /\ UNCHANGED <<core_vars, other_vars>>

\* a forwarding thread that does not leave its loop after Event::Exit
ForwardPastExit ==
    /\ subscription = "recv"
    /\ event_receiver # <<>>
    /\ event_receiver' = Tail(event_receiver)
    /\ IF pty_event_proxy.open
       THEN /\ pty_event_proxy' =
                 [pty_event_proxy EXCEPT
                    !.msgs = Append(@, <<session.id, Head(event_receiver)>>)]
            /\ repaints' = repaints + 1
            /\ UNCHANGED subscription
       ELSE /\ subscription' = "panicked"
            /\ UNCHANGED <<pty_event_proxy, repaints>>
    /\ tick' = 1 - tick
    /\ sent' = <<>>
    /\ cmd' = [op |-> "Forward", event |-> Head(event_receiver)]
    /\ UNCHANGED <<core_vars, session, event_loop>>

\* one round of the forwarding loop with an event received: republish it with
\* the session's id (panic if the caller's receiver is gone), request a
\* repaint, and leave the loop after Event::Exit
Forward ==
    /\ subscription = "recv"
    /\ event_receiver # <<>>
    /\ event_receiver' = Tail(event_receiver)
    /\ IF pty_event_proxy.open
       THEN /\ pty_event_proxy' =
                 [pty_event_proxy EXCEPT
                    !.msgs = Append(@, <<session.id, Head(event_receiver)>>)]
            /\ repaints' = repaints + 1
            /\ subscription' = IF Head(event_receiver) = "Exit" THEN "stopped" ELSE "recv"
       ELSE /\ subscription' = "panicked"
            /\ UNCHANGED <<pty_event_proxy, repaints>>
    /\ tick' = 1 - tick
    /\ sent' = <<>>
    /\ cmd' = [op |-> "Forward", event |-> Head(event_receiver)]
    /\ UNCHANGED <<core_vars, session, event_loop>>

\* TerminalBackend::new with a thread started before the process is spawned
OpenEager(id, outcome) ==
    /\ session.state = "none"
    /\ session' = [state |-> IF outcome = "ok" THEN "open" ELSE "failed", id |-> id]
    /\ event_loop' = "running"
    /\ subscription' = IF outcome = "ok" THEN "recv" ELSE "unspawned"
    /\ tick' = 1 - tick
    /\ sent' = <<>>
    /\ cmd' = [op |-> "New", outcome |-> outcome]
    /\ UNCHANGED <<core_vars, event_receiver, pty_event_proxy, repaints>>

\* TerminalBackend::new: tty::new, EventLoop::new and the spawn of the
\* forwarding thread can each fail and return the error with `?`; the event
\* loop thread is spawned after the first two, the forwarding thread last
Open(id, outcome) ==
    /\ session.state = "none"
    /\ session' = [state |-> IF outcome = "ok" THEN "open" ELSE "failed", id |-> id]
    /\ event_loop' = IF outcome \in {"ok", "thread_spawn_failed"}
                     THEN "running" ELSE "unspawned"
    /\ subscription' = IF outcome = "ok" THEN "recv" ELSE "unspawned"
    /\ tick' = 1 - tick
    /\ sent' = <<>>
    /\ cmd' = [op |-> "New", outcome |-> outcome]
    /\ UNCHANGED <<core_vars, event_receiver, pty_event_proxy, repaints>>

\* a drop that also tells the forwarding thread to stop
DropStopsForwarding ==
    /\ session.state = "open"
    /\ ui_pc = "idle"
    /\ session' = [session EXCEPT !.state = "dropped"]
    /\ sent' = IF event_loop = "running" THEN <<MsgShutdown>> ELSE <<>>
    /\ event_loop' = IF event_loop = "running" THEN "shutdown" ELSE event_loop
    /\ subscription' = IF subscription = "recv" THEN "stopped" ELSE subscription
    /\ tick' = 1 - tick
    /\ cmd' = [op |-> "Drop"]
    /\ UNCHANGED <<core_vars, event_receiver, pty_event_proxy, repaints>>

\* impl Drop for TerminalBackend: `let _ = self.notifier.0.send(Msg::Shutdown)`;
\* the send fails, and is ignored, when the event loop has ended
Drop ==
    /\ session.state = "open"
    /\ ui_pc = "idle"
    /\ session' = [session EXCEPT !.state = "dropped"]
    /\ sent' = IF event_loop = "running" THEN <<MsgShutdown>> ELSE <<>>
    /\ event_loop' = IF event_loop = "running" THEN "shutdown" ELSE event_loop
    /\ tick' = 1 - tick
    /\ cmd' = [op |-> "Drop"]
    /\ UNCHANGED <<core_vars, subscription, event_receiver, pty_event_proxy, repaints>>

\* the event loop thread takes Msg::Shutdown and returns, sending no event
EventLoopShutdown ==
    /\ event_loop = "shutdown"
    /\ event_loop' = "ended"
    /\ tick' = 1 - tick
    /\ sent' = <<>>
    /\ cmd' = [op |-> "Shutdown"]
    /\ UNCHANGED <<core_vars, session, subscription, event_receiver,
                   pty_event_proxy, repaints>>

\* the child process exits: the event loop thread calls Term::exit, which
\* sends Event::Exit, sends a last Event::Wakeup and returns
ChildExit ==
    /\ event_loop = "running"
    /\ event_loop' = "ended"
    /\ event_receiver' = send_event(send_event(event_receiver, "Exit"), "Wakeup")
    /\ tick' = 1 - tick
    /\ sent' = <<>>
    /\ cmd' = [op |-> "ChildExit"]
    /\ UNCHANGED <<core_vars, session, subscription, pty_event_proxy, repaints>>

\* the Term or the event loop sends an event through its EventProxy
EngineEvent(event) ==
    /\ SendersAlive
    /\ Len(event_receiver) < MaxEvents
    /\ Len(pty_event_proxy.msgs) < MaxEvents
    /\ event_receiver' = send_event(event_receiver, event)
    /\ tick' = 1 - tick
    /\ sent' = <<>>
    /\ cmd' = [op |-> "Event", event |-> event]
    /\ UNCHANGED <<core_vars, session, event_loop, subscription,
                   pty_event_proxy, repaints>>

\* the caller drops the receiver of the channel it passed to new
CallerDropsReceiver ==
    /\ pty_event_proxy.open
    /\ pty_event_proxy' = [pty_event_proxy EXCEPT !.open = FALSE]
    /\ tick' = 1 - tick
    /\ sent' = <<>>
    /\ cmd' = [op |-> "CallerDrop"]
    /\ UNCHANGED <<core_vars, session, event_loop, subscription,
                   event_receiver, repaints>>

\* session ids, outcomes of new and engine events
SessionIds == {1, 2}
OpenOutcomes == {"ok", "tty_new_failed", "event_loop_new_failed", "thread_spawn_failed"}
EngineEvents == {"Wakeup", "Title"}

\* before TerminalBackend::new: no session and no thread; the fields hold what
\* new will give them
InitLife ==
    /\ size = TerminalSizeDefault
    /\ term = TermNew(TerminalSizeDefault)
    /\ last_content =
         [grid |-> Grid(TermNew(TerminalSizeDefault)),
          selectable_range |-> None,
          terminal_mode |-> TermNew(TerminalSizeDefault).mode,
          terminal_size |-> TerminalSizeDefault,
          cursor |-> cursor_cell(TermNew(TerminalSizeDefault)),
          hovered_hyperlink |-> None]
    /\ sent = <<>>
    /\ cmd = [op |-> "None"]
    /\ panicked = FALSE
    /\ tick = 0
    /\ mutex = MutexFree
    /\ ui_pc = "idle"
    /\ engine_pc = "idle"
    /\ session = [state |-> "none", id |-> 0]
    /\ event_loop = "unspawned"
    /\ subscription = "unspawned"
    /\ event_receiver = <<>>
    /\ pty_event_proxy = [open |-> TRUE, msgs |-> <<>>]
    /\ repaints = 0
    /\ theme = ColorPaletteDefault
    /\ color = None
    /\ bindings_layout = BindingsLayoutNew
    /\ state = TerminalViewStateDefault
    /\ input_event = [kind |-> "None"]
    /\ input_action = Ignore
    /\ frame = FrameIdle
    /\ pending = <<>>
    /\ memory = TerminalViewStateDefault

NextLife ==
    \/ \E id \in SessionIds, outcome \in OpenOutcomes : Open(id, outcome)
    \/ Locked(Sync)
    \/ Drop
    \/ EventLoopShutdown
    \/ ChildExit
    \/ \E event \in EngineEvents : EngineEvent(event)
    \/ Forward
    \/ ForwardClosed
    \/ CallerDropsReceiver

SpecLife == InitLife /\ [][NextLife]_vars

\* Scheduling: both threads are OS threads that run when they can
SpecLifeFair ==
    /\ SpecLife
    /\ WF_vars(Forward)
    /\ WF_vars(ForwardClosed)
    /\ WF_vars(EventLoopShutdown)

\* The whole adapter: every command, sync and the engine thread
Next ==
    \/ \E i \in {<<97>>} : Locked(Write(i))
    \/ \E d \in {-1, 1} : Locked(Scroll(d))
    \/ \E l \in {Size(Px(800), Px(600))}, f \in {Size(Px(10), Px(20))} : Locked(Resize(l, f))
    \/ \E p \in {<<PxHalf(4), Px(0)>>} : Locked(SelectStart("Simple", p[1], p[2]))
    \/ \E p \in {<<Px(17), PxHalf(25)>>} : Locked(SelectUpdate(p[1], p[2]))
    \/ \E a \in LinkActions, pt \in {Point(0, 1)} : Locked(ProcessLink(a, pt))
    \/ \E pt \in {Point(0, 1)} : Locked(MouseReport(LeftButton, {}, pt, TRUE))
    \/ Locked(Sync)
    \/ \E f \in {ALT_SCREEN} : Locked(EngineSetMode(f))
    \/ \E c \in {0, 1} : Locked(EngineOutput(c, TRUE))

Spec == Init /\ [][Next]_vars

\* Mouse reports and scrolling while the engine changes its mode between syncs
NextModes ==
    \/ \E pr \in BOOLEAN : Locked(MouseReport(LeftButton, {}, Point(0, 100), pr))
    \/ \E d \in {-1, 1} : Locked(Scroll(d))
    \/ \E f \in {SGR_MOUSE, UTF8_MOUSE, ALT_SCREEN} : Locked(EngineSetMode(f))
    \/ Locked(Sync)

SpecModes == Init /\ [][NextModes]_vars

---------------------------------------------------------------------------
(* Claims C1-C3: resize negotiation and the pixel-to-grid mapping,         *)
(* checked under SpecGeometry                                              *)

\* the arguments of a Resize step equal the geometry they meet
ResizeUnchanged(sz, c) ==
    /\ c.layout_size = sz.layout_size
    /\ f32_as_u16(c.font_size.width) = sz.cell_width
    /\ f32_as_u16(c.font_size.height) = sz.cell_height

\* C1: a Resize that repeats the Resize dispatched just before it, with the
\* same layout size and cell size, changes no field of the geometry, sends
\* nothing on the notifier channel (no window-size notification) and leaves
\* the engine grid's dimensions alone, whether the first was applied or
\* rejected.
C1_ResizeIdempotent ==
    [][ (cmd.op = "Resize" /\ cmd' = cmd)
          => /\ size' = size
             /\ sent' = <<>>
             /\ term'.columns = term.columns
             /\ term'.screen_lines = term.screen_lines ]_vars

\* a repeated Resize after an applied one: the geometry holds the arguments,
\* differs from the default, and the step sent nothing
C1_Witness ==
    /\ cmd.op = "Resize"
    /\ ResizeUnchanged(size, cmd)
    /\ size.num_cols = 114
    /\ sent = <<>>

\* floor(layout / cell) of the real-valued quotient of two f32 arguments
RealFloorDiv(layout, cell) == layout \div cell

\* C2 as stated: a Resize that differs from the geometry and whose quotients
\* floor(layout_height / cell_height), floor(layout_width / cell_width) of the
\* given sizes are positive leaves exactly those as the grid's lines and
\* columns, for every layout size and every cell size (read here for cells
\* of at least one pixel, where the quotient is beyond doubt).
C2_Original ==
    [][ (/\ cmd'.op = "Resize"
         /\ ~ResizeUnchanged(size, cmd')
         /\ cmd'.font_size.width >= Sub /\ cmd'.font_size.height >= Sub
         /\ RealFloorDiv(cmd'.layout_size.height, cmd'.font_size.height) > 0
         /\ RealFloorDiv(cmd'.layout_size.width, cmd'.font_size.width) > 0)
          => /\ size'.num_lines =
                   RealFloorDiv(cmd'.layout_size.height, cmd'.font_size.height)
             /\ size'.num_cols =
                   RealFloorDiv(cmd'.layout_size.width, cmd'.font_size.width) ]_vars

\* floor(layout / floor(cell)) saturated to 16 bits; a cell that floors to 0
\* gives 65535 for a positive layout dimension and 0 otherwise
FlooredCellDiv(layout, cell) ==
    LET whole == cell \div Sub
    IN  IF whole = 0 THEN (IF layout > 0 THEN 65535 ELSE 0)
        ELSE IF layout <= 0 THEN 0
        ELSE Min(layout \div (whole * Sub), 65535)

\* C2 (amended): a Resize that differs from the geometry computes
\* lines = floor(layout_height / floor(cell_height)) and
\* cols = floor(layout_width / floor(cell_width)), each saturated to 65535,
\* and when both are positive they are the new grid; on a fresh session
\* Resize({800,600},{10,20}) yields cols = 80, lines = 30.
C2_ResizeGrid ==
    [][ (cmd'.op = "Resize" /\ ~ResizeUnchanged(size, cmd'))
          => LET lines == FlooredCellDiv(cmd'.layout_size.height, cmd'.font_size.height)
                 cols == FlooredCellDiv(cmd'.layout_size.width, cmd'.font_size.width)
             IN  /\ (lines > 0 /\ cols > 0)
                      => (size'.num_lines = lines /\ size'.num_cols = cols)
                 /\ (/\ size = TerminalSizeDefault
                     /\ cmd'.layout_size = Size(Px(800), Px(600))
                     /\ cmd'.font_size = Size(Px(10), Px(20)))
                      => (size'.num_cols = 80 /\ size'.num_lines = 30) ]_vars

\* a Resize with the fractional cell 7.5 x 15.5 was applied: 800/7, 600/15
C2_Witness ==
    /\ cmd.op = "Resize"
    /\ cmd.font_size = Size(PxHalf(7), PxHalf(15))
    /\ cmd.layout_size = Size(Px(800), Px(600))
    /\ sent = on_resize([num_lines |-> 40, num_cols |-> 114,
                         cell_width |-> 7, cell_height |-> 15])
    /\ size.num_cols = 114 /\ size.num_lines = 40

\* pixel positions probed in every reachable geometry: negative, sub-cell
\* offsets inside one cell, cell borders, the last cell and far outside
ProbePixels ==
    {-Px(3), -1, 0, 1, PxHalf(6), Px(7) - 1, Px(7), PxHalf(9), Px(10), Px(14) + 1,
     Px(20), Px(49), Px(599), Px(600), Px(799), PxHalf(799), Px(800), Px(100000)}

\* the reference mapping of one axis: floor(v / cell) of the real quotient,
\* 0 for a negative position, capped at the last cell
RefCell(v, cell, count) ==
    IF v < 0 THEN 0 ELSE Min(v \div (cell * Sub), count - 1)

\* C3: in every reachable geometry with cells at least one pixel wide and
\* high and under every display offset, selection_point maps every pixel
\* position to column min(floor(x / cell_width), cols-1) and line
\* min(floor(y / cell_height), lines-1) - display_offset (negative
\* coordinates map to cell 0), so positions inside one cell agree and the
\* viewport-relative point lies in [0,cols-1] x [0,lines-1]; the point a
\* SelectStart anchors is that mapping of its arguments.
C3_SelectionPoint ==
    ~selection_point_panics(size) =>
      /\ \A x \in ProbePixels, y \in ProbePixels :
            LET p == selection_point(x, y, size, term.display_offset)
            IN  /\ p.column = RefCell(x, size.cell_width, size.num_cols)
                /\ p.line = RefCell(y, size.cell_height, size.num_lines)
                              - term.display_offset
                /\ p.column \in 0..(size.num_cols - 1)
                /\ p.line + term.display_offset \in 0..(size.num_lines - 1)
      /\ (cmd.op = "SelectStart" /\ ~panicked)
            => /\ term.selection.some
               /\ term.selection.val.start.point =
                    Point(RefCell(cmd.y, size.cell_height, size.num_lines)
                            - term.display_offset,
                          RefCell(cmd.x, size.cell_width, size.num_cols))

\* a SelectStart far outside the widget while scrolled back: the anchor is
\* the last cell of the viewport, on a scrollback-relative line
C3_Witness ==
    /\ cmd.op = "SelectStart"
    /\ cmd.x = Px(100000)
    /\ term.display_offset = 1
    /\ size.num_cols = 80 /\ size.num_lines = 30
    /\ term.selection.some
    /\ term.selection.val.start.point = Point(28, 79)

---------------------------------------------------------------------------
(* Claims C4-C6: the mouse protocol encoder, checked under SpecMouse       *)

\* the button code of the claims: identity + 4 (shift) + 8 (alt) + 16 (command)
ClaimCode(button, modifiers) ==
    button + (IF SHIFT \in modifiers THEN 4 ELSE 0)
           + (IF ALT \in modifiers THEN 8 ELSE 0)
           + (IF COMMAND \in modifiers THEN 16 ELSE 0)

\* reading a decimal field back
IsDigits(f) == Len(f) > 0 /\ \A i \in 1..Len(f) : f[i] \in 48..57

RECURSIVE ParseNat(_)
ParseNat(f) ==
    IF Len(f) = 1 THEN f[1] - 48
    ELSE 10 * ParseNat(SubSeq(f, 1, Len(f) - 1)) + (f[Len(f)] - 48)

IsNatOf(f, n) == IsDigits(f) /\ (Len(f) = 1 \/ f[1] # 48) /\ ParseNat(f) = n

IsDecOf(f, n) ==
    IF n < 0 THEN Len(f) > 1 /\ f[1] = 45 /\ IsNatOf(Tail(f), -n)
    ELSE IsNatOf(f, n)

\* bytes are ESC [ < a ; b ; c suffix with a, b, c in decimal
IsSgrReport(bytes, a, b, c, suffix) ==
    LET semis == {i \in 1..Len(bytes) : bytes[i] = 59}
    IN  /\ Len(bytes) >= 9
        /\ SubSeq(bytes, 1, 3) = <<27, 91, 60>>
        /\ bytes[Len(bytes)] = suffix
        /\ Cardinality(semis) = 2
        /\ LET i1 == CHOOSE i \in semis : \A j \in semis : i <= j
               i2 == CHOOSE i \in semis : \A j \in semis : i >= j
           IN  /\ IsDecOf(SubSeq(bytes, 4, i1 - 1), a)
               /\ IsDecOf(SubSeq(bytes, i1 + 1, i2 - 1), b)
               /\ IsDecOf(SubSeq(bytes, i2 + 1, Len(bytes) - 1), c)

\* the bytes of the one message an outcome set sends
OnlyBytes(outcomes) == (CHOOSE o \in outcomes : TRUE).msgs[1].bytes

\* C4: while the last snapshot's mode has SGR mouse set, a MouseReport writes
\* exactly one message, the ASCII bytes ESC [ < code ; col+1 ; row+1 and then
\* 'M' for a press or 'm' for a release, with code = button + 4 (shift)
\* + 8 (alt) + 16 (command); the press and the release report of the same
\* button, modifiers and point differ only in that last character.
C4_SgrReport ==
    /\ (cmd.op = "MouseReport" /\ SGR_MOUSE \in last_content.terminal_mode)
         => /\ ~panicked
            /\ Len(sent) = 1
            /\ sent[1].type = "Input"
            /\ IsSgrReport(sent[1].bytes,
                           ClaimCode(cmd.button, cmd.modifiers),
                           cmd.point.column + 1, cmd.point.line + 1,
                           IF cmd.pressed THEN 77 ELSE 109)
    /\ SGR_MOUSE \in last_content.terminal_mode
         => \A b \in MouseButtons, m \in ModifierSets, pt \in MousePoints :
              LET press == OnlyBytes(process_mouse_report(
                               last_content.terminal_mode, b, m, pt, TRUE))
                  release == OnlyBytes(process_mouse_report(
                               last_content.terminal_mode, b, m, pt, FALSE))
                  n == Len(press)
              IN  /\ Len(release) = n
                  /\ SubSeq(press, 1, n - 1) = SubSeq(release, 1, n - 1)
                  /\ press[n] = 77 /\ release[n] = 109

\* a release of the right button with every modifier at (95, 95), SGR and
\* UTF-8 mouse both set: ESC [ < 30 ; 96 ; 96 m
C4_Witness ==
    /\ cmd.op = "MouseReport"
    /\ {SGR_MOUSE, UTF8_MOUSE} \subseteq last_content.terminal_mode
    /\ cmd.button = RightButton
    /\ cmd.modifiers = {SHIFT, ALT, COMMAND}
    /\ cmd.point = Point(95, 95)
    /\ ~cmd.pressed
    /\ sent = <<MsgInput(<<27, 91, 60, 51, 48, 59, 57, 54, 59, 57, 54, 109>>)>>

\* the legacy protocol's coordinate maximum
LegacyMax(mode) == IF UTF8_MOUSE \in mode THEN 2015 ELSE 223

\* C5: while the last snapshot's mode has no SGR mouse, a MouseReport whose
\* line or column is at or above the protocol maximum (223, or 2015 with
\* UTF-8 mouse) sends nothing; whenever something was sent, both
\* coordinates are below the maximum.
C5_LegacySuppressed ==
    (cmd.op = "MouseReport" /\ SGR_MOUSE \notin last_content.terminal_mode)
      => LET max == LegacyMax(last_content.terminal_mode)
         IN  /\ (cmd.point.line >= max \/ cmd.point.column >= max) => sent = <<>>
             /\ sent # <<>> => (cmd.point.line < max /\ cmd.point.column < max)

\* a report on line 223, the first suppressed line without UTF-8 mouse
C5_Witness ==
    /\ cmd.op = "MouseReport"
    /\ last_content.terminal_mode \cap {SGR_MOUSE, UTF8_MOUSE} = {}
    /\ cmd.point = Point(223, 7)
    /\ sent = <<>>
    /\ ~panicked

\* the button byte of a legacy report: a release is reported as button 3
LegacyCode(c) ==
    IF c.pressed THEN ClaimCode(c.button, c.modifiers) ELSE ClaimCode(3, c.modifiers)

\* a MouseReport in legacy mode with both coordinates in range
LegacyInRange ==
    /\ cmd.op = "MouseReport"
    /\ SGR_MOUSE \notin last_content.terminal_mode
    /\ cmd.point.line \in 0..(LegacyMax(last_content.terminal_mode) - 1)
    /\ cmd.point.column \in 0..(LegacyMax(last_content.terminal_mode) - 1)

\* C6 as stated: the two-byte form of a coordinate is (0xC0 + pos/64,
\* 0x80 + pos%64) of the coordinate itself
StatedCoord(pos, utf8) ==
    IF utf8 /\ pos >= 95 THEN <<192 + (pos \div 64), 128 + (pos % 64)>>
    ELSE <<32 + 1 + pos>>

C6_Original ==
    LegacyInRange
      => sent = <<MsgInput(<<27, 91, 77, 32 + LegacyCode(cmd)>>
                    \o StatedCoord(cmd.point.column, UTF8_MOUSE \in last_content.terminal_mode)
                    \o StatedCoord(cmd.point.line, UTF8_MOUSE \in last_content.terminal_mode))>>

\* the two-byte form is taken of the offset coordinate 32 + 1 + pos
OffsetCoord(pos, utf8) ==
    IF utf8 /\ pos >= 95
    THEN <<192 + ((32 + 1 + pos) \div 64), 128 + ((32 + 1 + pos) % 64)>>
    ELSE <<32 + 1 + pos>>

\* C6 (amended): a legacy mouse report is ESC [ M, the byte 32+code, the
\* encoded column, the encoded row; an in-range coordinate pos is the two
\* bytes (0xC0 + (32+1+pos)/64, 0x80 + (32+1+pos)%64) when UTF-8 mouse is set
\* and pos >= 95, and the single byte 32+1+pos otherwise.
C6_LegacyReport ==
    LegacyInRange
      => /\ ~panicked
         /\ sent = <<MsgInput(<<27, 91, 77, 32 + LegacyCode(cmd)>>
                      \o OffsetCoord(cmd.point.column, UTF8_MOUSE \in last_content.terminal_mode)
                      \o OffsetCoord(cmd.point.line, UTF8_MOUSE \in last_content.terminal_mode))>>

\* a press at (95, 95) with UTF-8 mouse: both coordinates are 0xC2 0x80
C6_Witness ==
    /\ cmd.op = "MouseReport"
    /\ last_content.terminal_mode \cap {SGR_MOUSE, UTF8_MOUSE} = {UTF8_MOUSE}
    /\ cmd.point = Point(95, 95)
    /\ cmd.button = LeftButton /\ cmd.modifiers = {} /\ cmd.pressed
    /\ sent = <<MsgInput(<<27, 91, 77, 32, 194, 128, 194, 128>>)>>

---------------------------------------------------------------------------
(* Claims C7-C9: Scroll and Write, checked under SpecScroll                *)

\* |delta| cursor-key sequences ESC O final
CursorKeys(n, final) ==
    [i \in 1..(3 * n) |-> IF i % 3 = 1 THEN 27 ELSE IF i % 3 = 2 THEN 79 ELSE final]

\* both mode flags of the alternate-screen scroll translation are set
AltScrollActive(mode) == ALT_SCREEN \in mode /\ ALTERNATE_SCROLL \in mode

\* C7: a Scroll(delta), delta # 0, dispatched while the terminal mode has both
\* the alternate-screen and the alternate-scroll flag writes one message of
\* exactly |delta| sequences ESC O A (delta > 0) or ESC O B (delta < 0) and
\* leaves the display offset as it was; Scroll(3) writes three ESC O A.
C7_AltScroll ==
    [][ (cmd'.op = "Scroll" /\ cmd'.delta # 0 /\ AltScrollActive(term.mode))
          => /\ sent' = <<MsgInput(CursorKeys(Abs(cmd'.delta),
                                   IF cmd'.delta > 0 THEN 65 ELSE 66))>>
             /\ term'.display_offset = term.display_offset
             /\ cmd'.delta = 3
                  => sent' = <<MsgInput(<<27, 79, 65, 27, 79, 65, 27, 79, 65>>)>>
      ]_vars

\* Scroll(3) on the alternate screen with alternate scroll
C7_Witness ==
    /\ cmd.op = "Scroll" /\ cmd.delta = 3
    /\ AltScrollActive(term.mode)
    /\ sent = <<MsgInput(<<27, 79, 65, 27, 79, 65, 27, 79, 65>>)>>
    /\ term.display_offset = 0

\* C8 as stated: a Scroll(delta) with either flag missing moves the display
\* offset by delta and writes nothing; Scroll(0) writes nothing and leaves
\* the offset.
C8_Original ==
    [][ /\ (cmd'.op = "Scroll" /\ ~AltScrollActive(term.mode))
             => /\ term'.display_offset = term.display_offset + cmd'.delta
                /\ sent' = <<>>
        /\ (cmd'.op = "Scroll" /\ cmd'.delta = 0)
             => /\ term'.display_offset = term.display_offset
                /\ sent' = <<>>
      ]_vars

\* C8 (amended): a Scroll(delta) with either flag missing writes nothing and
\* moves the display offset by delta only as far as the scrollback allows:
\* the new offset is offset + delta clamped to 0 .. history size; Scroll(0)
\* in any mode writes nothing and leaves the offset.
C8_ScrollDisplay ==
    [][ /\ (cmd'.op = "Scroll" /\ ~AltScrollActive(term.mode))
             => /\ term'.display_offset =
                     Max(0, Min(term.display_offset + cmd'.delta, history_size(term)))
                /\ sent' = <<>>
        /\ (cmd'.op = "Scroll" /\ cmd'.delta = 0)
             => /\ term'.display_offset = term.display_offset
                /\ sent' = <<>>
      ]_vars

\* a Scroll(1) on the primary screen that reached offset 1
C8_Witness ==
    /\ cmd.op = "Scroll" /\ cmd.delta = 1
    /\ ALT_SCREEN \notin term.mode
    /\ term.display_offset = 1
    /\ sent = <<>>

\* the bytes of the messages written to the process input
InputBytes(msgs) ==
    IF msgs = <<>> THEN <<>>
    ELSE IF \A i \in 1..Len(msgs) : msgs[i].type = "Input"
         THEN msgs[1].bytes ELSE <<-1>>

\* C9: a Write(bytes) sends exactly the given bytes, in at most one message,
\* and leaves the display offset at 0 whatever it was; the geometry, the
\* selection and the hovered hyperlink are what they were.
C9_Write ==
    [][ cmd'.op = "Write"
          => /\ Len(sent') <= 1
             /\ InputBytes(sent') = cmd'.input
             /\ term'.display_offset = 0
             /\ size' = size
             /\ term'.selection = term.selection
             /\ last_content'.hovered_hyperlink = last_content.hovered_hyperlink
      ]_vars

\* a Write of ESC [ A with scrollback, a selection and a hovered link
C9_Witness ==
    /\ cmd.op = "Write" /\ cmd.input = <<27, 91, 65>>
    /\ sent = <<MsgInput(<<27, 91, 65>>)>>
    /\ term.history > 0 /\ term.display_offset = 0
    /\ term.selection.some
    /\ last_content.hovered_hyperlink.some

---------------------------------------------------------------------------
(* Claim C10: the render snapshot, checked under Spec                      *)

\* the snapshot without its hovered hyperlink span
SyncedFields(c) ==
    <<c.grid, c.selectable_range, c.cursor, c.terminal_mode, c.terminal_size>>

\* C10 as stated: every step other than sync leaves every field of the
\* snapshot, the hovered hyperlink span included, as it was.
C10_Original ==
    [][ cmd'.op # "Sync" => last_content' = last_content ]_vars

\* C10 (amended): every step other than sync leaves the snapshot's grid,
\* selection range, mode, cursor and geometry as they were; the hovered
\* hyperlink span changes only at ProcessLink(Hover) and ProcessLink(Clear).
C10_SnapshotFrame ==
    [][ /\ cmd'.op # "Sync" => SyncedFields(last_content') = SyncedFields(last_content)
        /\ last_content'.hovered_hyperlink # last_content.hovered_hyperlink
             => (cmd'.op = "ProcessLink" /\ cmd'.action \in {"Hover", "Clear"})
      ]_vars

\* a hover found a link while the snapshot's grid is behind the live grid
C10_Witness ==
    /\ cmd.op = "ProcessLink" /\ cmd.action = "Hover"
    /\ last_content.hovered_hyperlink.some
    /\ last_content.grid # Grid(term)
    /\ last_content.terminal_mode # term.mode

---------------------------------------------------------------------------
(* Claim C11: what a sync observes, checked under Spec                     *)

\* C11: a sync takes its snapshot of the state every dispatch completed
\* before it has left, whatever the engine thread did in between: the
\* snapshot's grid display offset, selection range and terminal size after
\* the sync are those of the engine and the adapter when the sync ran.
C11_SyncObservesDispatch ==
    [][ cmd'.op = "Sync"
          => /\ last_content'.grid.display_offset = term.display_offset
             /\ last_content'.selectable_range =
                  (IF term.selection.some THEN to_range(term.selection.val, term)
                   ELSE None)
             /\ last_content'.terminal_size = size
             /\ term' = term /\ size' = size
      ]_vars

\* a sync after a Resize to 80x30, a selection and a scroll back by one line
C11_Witness ==
    /\ cmd.op = "Sync"
    /\ last_content.terminal_size.num_cols = 80
    /\ last_content.terminal_size.num_lines = 30
    /\ last_content.grid.display_offset = 1
    /\ last_content.selectable_range.some

---------------------------------------------------------------------------
(* Claims C12-C14: selections, checked under SpecSelect                    *)

\* the characters of the rows line..bot of a grid that lie in the inclusive
\* range r, row after row
RECURSIVE RowsText(_, _, _, _)
RowsText(grid, r, line, bot) ==
    IF line > bot THEN <<>>
    ELSE LET c1 == IF line = r.start.line THEN r.start.column ELSE 0
             c2 == IF line = r.end.line THEN r.end.column ELSE grid.columns - 1
         IN  [i \in 1..(c2 - c1 + 1) |-> cell_char(grid, Point(line, c1 + i - 1))]
             \o RowsText(grid, r, line + 1, bot)

\* the characters of a grid whose coordinates fall within a range
RangeText(grid, range) ==
    IF ~range.some THEN <<>>
    ELSE RowsText(grid, range.val, range.val.start.line, range.val.end.line)

\* the same, of the rows the viewport shows only
VisibleRangeText(grid, range) ==
    IF ~range.some THEN <<>>
    ELSE RowsText(grid, range.val,
                  Max(range.val.start.line, -grid.display_offset),
                  Min(range.val.end.line, grid.screen_lines - 1 - grid.display_offset))

\* a Simple selection that was updated to a later point
UpdatedToLater(t) ==
    /\ t.selection.some
    /\ t.selection.val.ty = "Simple"
    /\ PointLess(t.selection.val.start.point, t.selection.val.end.point)

\* C12 as stated: once SelectStart(Simple) and a SelectUpdate to a later
\* point have been dispatched, selectable_text() is exactly the characters
\* whose grid coordinates fall within the resulting selection range.
C12_Original ==
    (cmd.op = "SelectUpdate" /\ UpdatedToLater(term))
      => selectable_content(last_content)
           = RangeText(Grid(term), to_range(term.selection.val, term))

\* C12 (amended): after SelectStart(Simple), a SelectUpdate to a later point
\* and the sync that follows, selectable_text() is exactly the characters of
\* the visible rows of the grid whose coordinates fall within the resulting
\* inclusive range, in display order.
C12_SelectableText ==
    (cmd.op = "Sync" /\ UpdatedToLater(term))
      => selectable_content(last_content)
           = VisibleRangeText(Grid(term), to_range(term.selection.val, term))

\* on the fresh 80x50 grid showing the URL: from (0, 4) to (25, 16), the rest
\* of the first row, 24 whole rows and 17 cells of the last
C12_Witness ==
    /\ cmd.op = "Sync" /\ UpdatedToLater(term)
    /\ last_content.selectable_range = Some([start |-> Point(0, 4), end |-> Point(25, 16)])
    /\ Len(selectable_content(last_content)) = 76 + 24 * 80 + 17
    /\ SubSeq(selectable_content(last_content), 1, 6) = <<112, 58, 47, 47, 97, 32>>

\* the horizontal offset of pixel x within its cell, and the halves of a cell
SubCellOffset(x, cell_width) == x % (cell_width * Sub)
InRightHalf(x, cell_width) == 2 * SubCellOffset(x, cell_width) > cell_width * Sub
InLeftHalf(x, cell_width) == 2 * SubCellOffset(x, cell_width) < cell_width * Sub

\* C13: SelectStart(kind, x, y) leaves a new selection of that kind with both
\* anchors at selection_point(x, y) under the current geometry and display
\* offset, with side Right whenever x lies in the right half of its cell and
\* side Left whenever it lies in the left half.
C13_SelectStart ==
    (cmd.op = "SelectStart" /\ ~panicked /\ cmd.x >= 0)
      => /\ term.selection.some
         /\ term.selection.val.ty = cmd.ty
         /\ term.selection.val.end = term.selection.val.start
         /\ term.selection.val.start.point
              = selection_point(cmd.x, cmd.y, size, term.display_offset)
         /\ InRightHalf(cmd.x, size.cell_width)
              => term.selection.val.start.side = "Right"
         /\ InLeftHalf(cmd.x, size.cell_width)
              => term.selection.val.start.side = "Left"

\* C14: a SelectUpdate(x, y) with no selection active changes nothing: no
\* selection, no engine state, no adapter state, no message; with a
\* selection active it moves that selection's end to selection_point(x, y)
\* and keeps its start anchor and its type, and changes nothing else.
C14_SelectUpdate ==
    [][ cmd'.op = "SelectUpdate"
          => /\ size' = size /\ last_content' = last_content
             /\ sent' = <<>> /\ panicked' = panicked
             /\ IF ~term.selection.some
                THEN term' = term
                ELSE /\ term'.selection.some
                     /\ term' = [term EXCEPT !.selection = term'.selection]
                     /\ term'.selection.val.ty = term.selection.val.ty
                     /\ term'.selection.val.start = term.selection.val.start
                     /\ term'.selection.val.end.point
                          = selection_point(cmd'.x, cmd'.y, size, term.display_offset)
      ]_vars

\* a Lines selection started at (0, 0) and updated to pixel (17, 25.5) on
\* the 80x30 grid: the end is on line 1, column 1, the rest is kept
C14_Witness ==
    /\ cmd.op = "SelectUpdate" /\ cmd.x = Px(17)
    /\ size.num_lines = 30
    /\ term.selection.some
    /\ term.selection.val.ty = "Lines"
    /\ term.selection.val.start.point = Point(0, 0)
    /\ term.selection.val.end.point = Point(1, 1)

---------------------------------------------------------------------------
(* Claims C15, C16, C17: hyperlinks                                        *)

\* C15: the hovered hyperlink span changes only at ProcessLink(Hover), which
\* sets it to the match found at the point or to none, and at
\* ProcessLink(Clear), which sets it to none; every other command, sync and
\* every engine step leave it as it was, whatever happened to the grid.
C15_HoverRetained ==
    [][ IF cmd'.op = "ProcessLink" /\ cmd'.action = "Hover"
        THEN last_content'.hovered_hyperlink = regex_match_at(term, cmd'.point)
        ELSE IF cmd'.op = "ProcessLink" /\ cmd'.action = "Clear"
        THEN last_content'.hovered_hyperlink = None
        ELSE last_content'.hovered_hyperlink = last_content.hovered_hyperlink
      ]_vars

\* the engine has blanked the grid and a sync has taken the blank grid, and
\* the span hovered before is still there
C15_Witness ==
    /\ cmd.op = "Sync"
    /\ term.content = 0
    /\ last_content.grid.content = 0
    /\ last_content.hovered_hyperlink = Some([start |-> Point(0, 1), end |-> Point(0, 8)])

\* the matches of the live grid that the claim lets a hover at point p find:
\* those that begin no more than LinkMargin lines above the viewport,
\* intersect the viewport and hold p within LinkMargin lines below it
HoverEligible(t, p) ==
    LET viewport_start == -t.display_offset
        viewport_end == viewport_start + (t.screen_lines - 1)
        ms == url_matches(t.content)
    IN  { i \in 1..Len(ms) :
            /\ ms[i].start.line >= viewport_start - LinkMargin
            /\ ms[i].end.line >= viewport_start
            /\ ms[i].start.line <= viewport_end
            /\ span_contains(ms[i], p)
            /\ p.line <= viewport_end + LinkMargin }

\* the span of match i of the live grid, cut at the lower end of the range
HoverSpan(t, i) ==
    LET last == Point(-t.display_offset + (t.screen_lines - 1) + LinkMargin,
                      t.columns - 1)
        m == url_matches(t.content)[i]
    IN  [start |-> m.start, end |-> IF PointLeq(m.end, last) THEN m.end ELSE last]

\* C16: after ProcessLink(Hover, point) the hovered span is the first match,
\* in left-to-right scan order, that holds the point among the matches that
\* intersect the viewport and lie in the range of LinkMargin lines around it,
\* and no span when there is none; for a point outside that range it is no
\* span, whatever the scrollback holds. Checked under SpecLink.
C16_HoverFirstMatch ==
    (cmd.op = "ProcessLink" /\ cmd.action = "Hover")
      => LET r == last_content.hovered_hyperlink
             eligible == HoverEligible(term, cmd.point)
             first == CHOOSE i \in eligible : \A j \in eligible : i <= j
         IN  /\ IF eligible = {} THEN r = None ELSE r = Some(HoverSpan(term, first))
             /\ (\/ cmd.point.line < -term.display_offset - LinkMargin
                 \/ cmd.point.line > -term.display_offset + (term.screen_lines - 1)
                                       + LinkMargin)
                  => r = None

\* the viewport is at the bottom, a URL begins LinkMargin + 1 lines above it
\* in the scrollback, and a hover at the URL's first cell finds no span
C16_Witness ==
    /\ cmd.op = "ProcessLink" /\ cmd.action = "Hover"
    /\ cmd.point = Point(-(LinkMargin + 1), 0)
    /\ term.content = LongUrl
    /\ term.display_offset = 0
    /\ term.history >= LinkMargin + 1
    /\ last_content.hovered_hyperlink = None

\* C17: a ProcessLink(Open) returns normally whether or not the OS opener
\* succeeds: the UI thread does not panic and the session state is unchanged.
C17_OpenNonFatal ==
    [][ (cmd'.op = "ProcessLink" /\ cmd'.action = "Open")
          => /\ ~panicked'
             /\ term' = term /\ size' = size /\ last_content' = last_content
      ]_vars

---------------------------------------------------------------------------
(* Claim C18: mouse reports without a mouse mode, checked under SpecMouse  *)

\* C18: a MouseReport dispatched while no mouse-reporting flag (click, drag,
\* motion, SGR, UTF-8) is set in the terminal mode writes nothing.
C18_NoModeNoReport ==
    (/\ cmd.op = "MouseReport"
     /\ last_content.terminal_mode \cap (MOUSE_MODE \cup {SGR_MOUSE, UTF8_MOUSE}) = {}
     /\ term.mode \cap (MOUSE_MODE \cup {SGR_MOUSE, UTF8_MOUSE}) = {})
      => sent = <<>>

---------------------------------------------------------------------------
(* Claims C19, C20: the engine lock, checked under SpecLock / SpecLockFair *)

\* C19: at most one thread is inside the engine state at a time; a dispatch
\* or a sync touches it only while the UI thread holds the lock and an engine
\* step only while the event loop thread holds it; every dispatch and sync
\* takes the lock once, from its blocking acquire, and has released it when
\* it returns; and the two threads never block each other for good: while
\* the UI thread lives some step can be taken.
C19_MutualExclusion ==
    /\ [](/\ Cardinality(mutex.data) <= 1
          /\ Cardinality(mutex.next) <= 1
          /\ ("ui" \in mutex.data) <=> (ui_pc = "locked")
          /\ ("engine" \in mutex.data) <=> (engine_pc = "locked")
          /\ (ui_pc = "idle") => ("ui" \notin mutex.data \cup mutex.next)
          /\ ~panicked => ENABLED <<NextLock>>_vars)
    /\ [][ /\ (tick' # tick /\ cmd'.op # "Engine")
               => /\ "ui" \in mutex.data
                  /\ ui_pc' = "idle"
                  /\ "ui" \notin mutex'.data \cup mutex'.next
           /\ (tick' # tick /\ cmd'.op = "Engine") => "engine" \in mutex.data
           /\ (term' # term \/ last_content' # last_content \/ size' # size)
               => tick' # tick
           /\ ("ui" \in mutex'.data /\ "ui" \notin mutex.data)
               => ui_pc = "data" /\ mutex.data = {}
         ]_vars

\* the UI thread is inside a dispatch after an engine step, and the event
\* loop thread, holding the lease, is blocked on the lock
C19_Witness ==
    /\ ui_pc = "locked"
    /\ engine_pc = "data"
    /\ mutex = [next |-> {"engine"}, data |-> {"ui"}]
    /\ cmd.op = "Engine"
    /\ term.history > 0

\* C20: under SpecLockFair a dispatch or sync that has asked for the lock
\* gets it, however often the event loop thread asks for it in between.
C20_UiNotStarved == (ui_pc = "next") ~> (ui_pc = "locked")

\* after an engine step the UI thread holds the lease and the event loop
\* thread, asking again, waits behind it
C20_Witness ==
    /\ ui_pc = "data"
    /\ mutex = [next |-> {"ui"}, data |-> {}]
    /\ engine_pc = "next"
    /\ cmd.op = "Engine"

---------------------------------------------------------------------------
(* Claims C21..C24: the life of a session, checked under SpecLife          *)

\* an Exit event is waiting to be received by the forwarding thread
ExitQueued == \E i \in 1..Len(event_receiver) : event_receiver[i] = "Exit"

\* C21: once an Exit event is on its way to the forwarding thread, or every
\* sender of the inbound channel is gone, the forwarding thread eventually
\* stops running. Checked under SpecLifeFair.
C21_ForwardingTerminates ==
    (subscription = "recv" /\ (ExitQueued \/ ~SendersAlive))
      ~> (subscription # "recv")

\* C22 as stated: every event the forwarding thread receives is republished
\* with the session's id and followed by one repaint request.
C22_Original ==
    [][ (cmd'.op = "Forward")
          => /\ pty_event_proxy'.msgs
                  = Append(pty_event_proxy.msgs, <<session.id, Head(event_receiver)>>)
             /\ repaints' = repaints + 1
      ]_vars

\* C22: while the caller's receiver is alive, every event the forwarding
\* thread receives is republished once, in the order received, with the
\* session's id, and followed by one repaint request; nothing else republishes
\* or requests a repaint; the thread stops exactly when it has republished
\* Exit, so nothing is republished after it.
C22_Republish ==
    [][ /\ (cmd'.op = "Forward" /\ pty_event_proxy.open)
             => /\ event_receiver # <<>>
                /\ event_receiver' = Tail(event_receiver)
                /\ pty_event_proxy'.msgs
                     = Append(pty_event_proxy.msgs, <<session.id, Head(event_receiver)>>)
                /\ repaints' = repaints + 1
                /\ (subscription' = "stopped") <=> (Head(event_receiver) = "Exit")
        /\ (pty_event_proxy'.msgs # pty_event_proxy.msgs \/ repaints' # repaints)
             => (cmd'.op = "Forward" /\ subscription = "recv")
        /\ (subscription = "stopped") => (subscription' = "stopped")
      ]_vars

\* the thread has stopped after republishing an event and then Exit, with the
\* Wakeup the engine sent after Exit still in the queue
C22_Witness ==
    /\ subscription = "stopped"
    /\ Len(pty_event_proxy.msgs) = 2
    /\ pty_event_proxy.msgs[2] = <<session.id, "Exit">>
    /\ pty_event_proxy.msgs[1][2] # "Exit"
    /\ repaints = 2
    /\ event_receiver = <<"Wakeup">>

\* C23: dropping the session sends one Msg::Shutdown to the event loop (none
\* reaches it, and nothing else happens, when the event loop has ended), does
\* not panic and leaves the forwarding thread as it was; after the drop the
\* adapter sends nothing more; and the forwarding thread leaves its loop only
\* when it has received Exit.
C23_DropShutdown ==
    [][ /\ (cmd'.op = "Drop")
             => /\ session.state = "open" /\ session'.state = "dropped"
                /\ sent' = (IF event_loop = "running" THEN <<MsgShutdown>> ELSE <<>>)
                /\ ~panicked'
                /\ subscription' = subscription
                /\ event_receiver' = event_receiver
        /\ (session.state = "dropped") => (sent' = <<>> /\ session' = session)
        /\ (subscription # "stopped" /\ subscription' = "stopped")
             => (cmd'.op = "Forward" /\ cmd'.event = "Exit")
      ]_vars

\* the session has just been dropped with both threads running: the shutdown
\* is on its way and the forwarding thread still waits for events
C23_Witness ==
    /\ cmd.op = "Drop"
    /\ session.state = "dropped"
    /\ sent = <<MsgShutdown>>
    /\ event_loop = "shutdown"
    /\ subscription = "recv"

\* C24: when the process cannot be spawned, new returns the error: there is
\* no session, and neither the event loop thread nor the forwarding thread
\* has been started.
C24_SpawnFailure ==
    (cmd.op = "New" /\ cmd.outcome = "tty_new_failed")
      => /\ session.state = "failed"
         /\ event_loop = "unspawned"
         /\ subscription = "unspawned"
         /\ event_receiver = <<>>
         /\ sent = <<>>

\* new has failed at the spawn of the process
C24_Witness ==
    /\ cmd.op = "New"
    /\ cmd.outcome = "tty_new_failed"
    /\ session.state = "failed"
    /\ event_loop = "unspawned"

---------------------------------------------------------------------------
(* Claim C25: the guard of resize, checked under SpecGeometry              *)

\* the geometry a Resize(layout, font) asks for
AskedSize(layout, font) ==
    [layout_size |-> layout,
     cell_height |-> f32_as_u16(font.height),
     cell_width |-> f32_as_u16(font.width),
     num_lines |-> FlooredCellDiv(layout.height, font.height),
     num_cols |-> FlooredCellDiv(layout.width, font.width)]

\* what C25 says of a Resize whose computed lines or columns are zero
ResizeRefused == size' = size /\ sent' = <<>> /\ term' = term

\* what C25 says of a Resize whose computed lines and columns are positive
ResizeApplied(asked) ==
    /\ size' = asked
    /\ sent' = << MsgResize([num_lines |-> asked.num_lines,
                             num_cols |-> asked.num_cols,
                             cell_width |-> asked.cell_width,
                             cell_height |-> asked.cell_height]) >>
    /\ term'.columns = asked.num_cols
    /\ term'.screen_lines = asked.num_lines

\* C25 as stated: every Resize with positive computed lines and columns
\* stores the geometry, sends one notification and resizes the grid, and
\* every other Resize changes and sends nothing.
C25_Original ==
    [][ (cmd'.op = "Resize")
          => LET asked == AskedSize(cmd'.layout_size, cmd'.font_size)
             IN  IF asked.num_lines > 0 /\ asked.num_cols > 0
                 THEN ResizeApplied(asked)
                 ELSE ResizeRefused
      ]_vars

\* C25: a Resize whose layout size and truncated cell size are those stored
\* changes and sends nothing; any other Resize with zero computed lines or
\* columns changes and sends nothing either; any other Resize with both
\* positive stores the geometry, sends exactly one notification with the new
\* cols, lines and cell size and resizes the grid to the same cols and lines.
C25_ResizeGuard ==
    [][ (cmd'.op = "Resize")
          => LET asked == AskedSize(cmd'.layout_size, cmd'.font_size)
                 same == /\ asked.layout_size = size.layout_size
                         /\ asked.cell_width = size.cell_width
                         /\ asked.cell_height = size.cell_height
             IN  IF ~same /\ asked.num_lines > 0 /\ asked.num_cols > 0
                 THEN ResizeApplied(asked)
                 ELSE ResizeRefused
      ]_vars

\* after an applied resize to 80x30, a Resize to a layout narrower than a
\* cell has been refused: the 800x600 geometry stands and nothing was sent
C25_Witness ==
    /\ cmd.op = "Resize"
    /\ cmd.layout_size = Size(Px(5), Px(600))
    /\ cmd.font_size = Size(Px(10), Px(20))
    /\ size.layout_size = Size(Px(800), Px(600))
    /\ size.num_cols = 80 /\ size.num_lines = 30
    /\ term.columns = 80
    /\ sent = <<>>

---------------------------------------------------------------------------
(* Claims C26, C27: colours, checked under SpecTheme                       *)

\* the component of the 6x6x6 cube as the table of the claim gives it
TableComponent(c) == IF c = 0 THEN 0 ELSE 40 * c + 55

\* the colour the table of the claim gives index i in 16..255
TableColor(i) ==
    IF i <= 231
    THEN <<TableComponent((i - 16) \div 36),
           TableComponent(((i - 16) % 36) \div 6),
           TableComponent((i - 16) % 6)>>
    ELSE <<10 * (i - 232) + 8, 10 * (i - 232) + 8, 10 * (i - 232) + 8>>

\* every index 16..255 has an entry in the table the code builds, and it is the
\* colour of the claim's table
TableComplete == \A i \in 16..255 : ansi256_get(i) = Some(TableColor(i))

\* C26: an indexed colour 16..255 resolves to the colour of the table: cube
\* components 0 or 40c+55 for 16..231, grey 10*step+8 for 232..255; 16 is
\* (0,0,0), 231 (255,255,255), 232 (8,8,8), 255 (238,238,238); every index
\* 16..255 has an entry and no computation of the table overflows 8 bits.
C26_Ansi256 ==
    /\ (cmd.op = "GetColor" /\ cmd.color.kind = "Indexed" /\ cmd.color.index >= 16)
         => color = Some(Resolved(TableColor(cmd.color.index)))
    /\ TableColor(16) = <<0, 0, 0>> /\ TableColor(231) = <<255, 255, 255>>
    /\ TableColor(232) = <<8, 8, 8>> /\ TableColor(255) = <<238, 238, 238>>
    /\ TableComplete
    /\ ~ansi256_overflows

\* the last index has just been resolved to its grey
C26_Witness ==
    /\ cmd.op = "GetColor"
    /\ cmd.color = [kind |-> "Indexed", index |-> 255]
    /\ color = Some(Resolved(<<238, 238, 238>>))

\* an entry of the form '#' and six hexadecimal digits
WellFormed(entry) ==
    /\ Len(entry) = 7
    /\ entry[1] = 35
    /\ \A k \in 2..7 : hex_digit(entry[k]) >= 0

\* the palette entry a named colour or an index 0..15 is resolved from
EntryOf(palette, c) ==
    IF c.kind = "Indexed" THEN IndexedEntry(palette, c.index)
    ELSE NamedEntry(palette, c.name)

\* C27: a named colour or an indexed colour 0..15 whose palette entry is '#'
\* and six hexadecimal digits resolves to its (RR, GG, BB); with any other
\* entry the resolution fails with an error naming the entry and returns no
\* colour. (The panic of a slice that cuts a character quotes the entry
\* as well, and counts as such a failure.)
C27_MalformedFatal ==
    (/\ cmd.op = "GetColor"
     /\ \/ cmd.color.kind = "Named"
        \/ (cmd.color.kind = "Indexed" /\ cmd.color.index <= 15))
      => LET entry == EntryOf(theme, cmd.color)
         IN  IF WellFormed(entry)
             THEN color = Some(Resolved(
                      <<16 * hex_digit(entry[2]) + hex_digit(entry[3]),
                        16 * hex_digit(entry[4]) + hex_digit(entry[5]),
                        16 * hex_digit(entry[6]) + hex_digit(entry[7])>>))
             ELSE \/ color = Some(InvalidColor(entry))
                  \/ /\ color.some /\ color.val.panic
                     /\ "byte_index" \in DOMAIN color.val

---------------------------------------------------------------------------
(* Claim C28: the keybinding table, checked under SpecKeys                 *)

\* the table positions whose binding a key input triggers under the mode
Triggered(layout, key, modifiers, mode) ==
    {i \in DOMAIN layout :
       /\ layout[i][1].target = KeyCode(key)
       /\ layout[i][1].modifiers = modifiers
       /\ layout[i][1].terminal_mode_include \subseteq mode
       /\ layout[i][1].terminal_mode_exclude \cap mode = {}}

\* the InputAction a bound action stands for when a key is pressed
KeyAction(action) ==
    IF action.kind = "Char" THEN BackendCall([op |-> "Write", input |-> encode_utf8(action.c)])
    ELSE IF action.kind = "Esc" THEN BackendCall([op |-> "Write", input |-> action.seq])
    ELSE Ignore

\* the position in a registration of the last pair with the binding
LastOf(bindings, binding) ==
    CHOOSE i \in DOMAIN bindings :
      /\ bindings[i][1] = binding
      /\ \A j \in DOMAIN bindings : bindings[j][1] = binding => j <= i

\* C28: a registration leaves each of its bindings in the table once, with
\* the action registered last for it, and every binding with another key as
\* it was; a pressed key gets the action of a binding whose kind and
\* modifiers equal the input's exactly and whose include flags are all in
\* the snapshot's mode and exclude flags all out of it, and is ignored when
\* there is no such binding.
C28_BindingTable ==
    /\ [][cmd'.op = "AddBindings" =>
            /\ \A k \in DOMAIN cmd'.bindings :
                 LET b == cmd'.bindings[k][1]
                 IN  /\ Cardinality({i \in DOMAIN bindings_layout' :
                                       bindings_layout'[i][1] = b}) = 1
                     /\ \E i \in DOMAIN bindings_layout' :
                          bindings_layout'[i] = cmd'.bindings[LastOf(cmd'.bindings, b)]
            /\ \A i \in DOMAIN bindings_layout :
                 (\A k \in DOMAIN cmd'.bindings :
                    cmd'.bindings[k][1] # bindings_layout[i][1])
                   => bindings_layout'[i] = bindings_layout[i]
        ]_vars
    /\ [](input_event.kind = "Key" /\ input_event.pressed
             /\ cmd.op \in {"Write", "Ignore"} =>
            LET hits == Triggered(bindings_layout, input_event.key,
                                  input_event.modifiers, last_content.terminal_mode)
            IN  IF hits = {} THEN input_action = Ignore
                ELSE \E i \in hits : input_action = KeyAction(bindings_layout[i][2]))

\* ArrowUp is pressed in application-cursor mode after a caller bound it to a
\* character there: the character is written, not the built-in sequence
C28_Witness ==
    /\ input_event = [kind |-> "Key", key |-> "ArrowUp", modifiers |-> {},
                      pressed |-> TRUE]
    /\ APP_CURSOR \in last_content.terminal_mode
    /\ Len(bindings_layout) > Len(BindingsLayoutNew)
    /\ cmd = [op |-> "Write", input |-> <<195, 169>>]

---------------------------------------------------------------------------
(* Claims C29, C30: the pointer and the frame, checked under SpecFrame     *)

\* a primary-button event has just been translated
PrimaryTranslated ==
    /\ cmd'.op = "Frame" /\ cmd'.step = "event"
    /\ input_event'.kind = "PointerButton"
    /\ input_event'.button = "Primary"

\* C29: while the snapshot's mode has a mouse-reporting flag, a primary press
\* or release is translated to the single command MouseReport(LeftButton,
\* the event's modifiers, the last pointer grid point, pressed) and the drag
\* flag stays as it was, and no SelectStart is dispatched; while it has none,
\* a primary press is translated to the single command SelectStart at the
\* pointer position less the widget's origin and the drag flag is set.
C29_PrimaryButton ==
    /\ [][PrimaryTranslated =>
            IF last_content.terminal_mode \cap MOUSE_MODE # {}
            THEN /\ pending' = <<BackendCall(
                        [op |-> "MouseReport", button |-> LeftButton,
                         modifiers |-> input_event'.modifiers,
                         point |-> state.current_mouse_position_on_grid,
                         pressed |-> input_event'.pressed])>>
                 /\ state'.is_dragged = state.is_dragged
            ELSE input_event'.pressed =>
                 /\ Len(pending') = 1
                 /\ pending'[1].kind = "BackendCall"
                 /\ pending'[1].cmd.op = "SelectStart"
                 /\ pending'[1].cmd.x = input_event'.pos[1] - frame.layout.origin[1]
                 /\ pending'[1].cmd.y = input_event'.pos[2] - frame.layout.origin[2]
                 /\ state'.is_dragged
        ]_vars
    /\ [][cmd'.op = "SelectStart" => last_content.terminal_mode \cap MOUSE_MODE = {}]_vars

\* the press of the primary button has been reported to the process, with
\* the grid point the pointer was moved to before, and nothing is dragged
C29_Witness ==
    /\ cmd.op = "MouseReport"
    /\ cmd.button = LeftButton
    /\ cmd.pressed
    /\ cmd.point = Point(0, 2)
    /\ cmd.point = state.current_mouse_position_on_grid
    /\ input_event.kind = "PointerButton"
    /\ last_content.terminal_mode \cap MOUSE_MODE # {}
    /\ ~state.is_dragged
    /\ ~term.selection.some

\* the place of a step in the frame
StepRank(step) ==
    IF step = "idle" THEN 0
    ELSE IF step = "focus" THEN 1
    ELSE IF step = "resize" THEN 2
    ELSE IF step = "input" THEN 3
    ELSE IF step = "sync" THEN 4
    ELSE IF step = "render" THEN 5
    ELSE 6

\* C30: a frame goes through load, focus, one Resize, the commands of its
\* events in the order of the events, one sync, the painting and the store,
\* in this order; the snapshot painted has the geometry, the selection and
\* the scroll position the frame's commands left; and nothing before the
\* sync changes the mode or the geometry of the snapshot the translation
\* reads.
C30_FrameOrder ==
    /\ [][frame'.pc # frame.pc =>
            StepRank(frame'.pc) = (StepRank(frame.pc) + 1) % 7]_vars
    /\ [][(cmd'.op = "Resize") <=> (frame.pc = "resize" /\ frame'.pc # "resize")]_vars
    /\ [][(cmd'.op = "Sync") <=> (frame.pc = "sync" /\ frame'.pc # "sync")]_vars
    /\ [][cmd'.op \in {"Write", "MouseReport", "SelectStart", "SelectUpdate",
                       "ProcessLink", "WriteToClipboard", "Ignore"} =>
            /\ frame.pc = "input" /\ frame'.pc = "input"
            /\ pending # <<>> /\ pending' = Tail(pending)
            /\ Head(pending) = IF cmd'.op = "Ignore" THEN Ignore
                               ELSE IF cmd'.op = "WriteToClipboard"
                               THEN WriteToClipboard(cmd'.data)
                               ELSE BackendCall(cmd')]_vars
    /\ [][(input_event' # input_event \/ (pending = <<>> /\ pending' # <<>>)) =>
            /\ frame.pc = "input" /\ frame.events # <<>>
            /\ input_event' = Head(frame.events)
            /\ frame'.events = Tail(frame.events)
            /\ pending' = translate(input_event', state, frame, last_content,
                                    bindings_layout).actions]_vars
    /\ [](frame.pc \in {"render", "store"} =>
            /\ last_content.terminal_size = size
            /\ last_content.grid.display_offset = term.display_offset
            /\ last_content.selectable_range =
                 IF term.selection.some THEN to_range(term.selection.val, term)
                 ELSE None)
    /\ [][frame.pc \in {"focus", "resize", "input"} =>
            /\ last_content'.terminal_mode = last_content.terminal_mode
            /\ last_content'.terminal_size = last_content.terminal_size]_vars

\* a frame in which the pointer was dragged and the button released is about
\* to store its state: the snapshot it painted has the terminal's geometry
\* and the selection the drag made
C30_Witness ==
    /\ frame.pc = "store"
    /\ last_content.terminal_size.layout_size = Size(Px(800), Px(600))
    /\ last_content.selectable_range.some
    /\ input_event = PointerButton("Primary", PointerFar, {SHIFT}, FALSE)
    /\ memory.is_dragged
    /\ ~state.is_dragged

---------------------------------------------------------------------------
(* Claim C31: the drag flag, checked under SpecFrame                       *)

\* C31: between two frames, if the last primary-button event egui delivered
\* was a release (or there was none), the stored drag flag is false.
C31_DragOnlyWhileHeld ==
    (frame.pc = "idle" /\ ~frame.held) => ~memory.is_dragged

---------------------------------------------------------------------------
(* Claim C32: the stored geometry, checked under SpecGeometry              *)

\* C32: after new and after any Resize the stored geometry has at least one
\* column and one line and a cell of at least one pixel each way, so that
\* selection_point and selection_side divide by no zero.
C32_GeometryPositive ==
    /\ size.num_cols >= 1
    /\ size.num_lines >= 1
    /\ size.cell_width >= 1
    /\ size.cell_height >= 1
    /\ ~selection_point_panics(size)

---------------------------------------------------------------------------
(* Claim C34: which mode a command reads, checked under SpecModes          *)

\* C34: a mouse report is encoded as the mode of the last snapshot says (SGR:
\* ESC [ <; legacy: ESC [ M with two-byte coordinates from 95 on when the
\* snapshot has UTF-8 mouse, one byte otherwise), whatever the engine's mode
\* has become since; a Scroll writes cursor keys exactly when the engine's
\* own mode has alternate screen and alternate scroll.
C34_SnapshotMode ==
    /\ [][cmd'.op = "MouseReport" =>
            /\ Len(sent') = 1
            /\ LET b == sent'[1].bytes
               IN  IF SGR_MOUSE \in last_content.terminal_mode
                   THEN b[3] = 60
                   ELSE /\ b[3] = 77
                        /\ Len(b) = IF UTF8_MOUSE \in last_content.terminal_mode
                                    THEN 7 ELSE 6]_vars
    /\ [][(cmd'.op = "Scroll" /\ cmd'.delta # 0) =>
            ((sent' # <<>>) <=> AltScrollActive(term.mode))]_vars

\* a press is reported in the legacy encoding of the snapshot while the engine
\* has gone over to SGR
C34_Witness ==
    /\ cmd.op = "MouseReport"
    /\ SGR_MOUSE \in term.mode
    /\ SGR_MOUSE \notin last_content.terminal_mode
    /\ UTF8_MOUSE \notin last_content.terminal_mode
    /\ sent = <<MsgInput(<<27, 91, 77, 32, 133, 33>>)>>

---------------------------------------------------------------------------
(* Claim C35: button codes and the choice of SGR, checked under SpecMouse  *)

\* 4 for shift, 8 for alt, 16 for command
ModifierOffsets(modifiers) ==
    (IF SHIFT \in modifiers THEN 4 ELSE 0)
    + (IF ALT \in modifiers THEN 8 ELSE 0)
    + (IF COMMAND \in modifiers THEN 16 ELSE 0)

\* C35: a report written in legacy mode has as its fourth byte 32 + 3 + the
\* modifier offsets for a release, whatever the button, and 32 + the button +
\* the modifier offsets for a press; with the SGR flag in the snapshot the
\* report is an SGR one, with or without the UTF-8 mouse flag.
C35_ButtonCodes ==
    [][(cmd'.op = "MouseReport" /\ sent' # <<>>) =>
         LET b == sent'[1].bytes
         IN  IF SGR_MOUSE \in last_content.terminal_mode
             THEN b[3] = 60
             ELSE /\ b[3] = 77
                  /\ b[4] = 32 + ModifierOffsets(cmd'.modifiers)
                            + (IF cmd'.pressed THEN cmd'.button ELSE 3)]_vars

\* the right button is released with shift held, in legacy mode
C35_Witness ==
    /\ cmd.op = "MouseReport"
    /\ cmd.button = RightButton
    /\ ~cmd.pressed
    /\ cmd.modifiers = {SHIFT}
    /\ SGR_MOUSE \notin last_content.terminal_mode
    /\ sent # <<>>
    /\ sent[1].bytes[4] = 39

---------------------------------------------------------------------------
(* Claim C33: the coordinates of a report, checked under SpecReport        *)

\* C33: a mouse report dispatched by the widget is written, and carries a
\* 1-based column in 1..cols and a 1-based row in 1..lines of the viewport:
\* as decimal numbers in the SGR encoding, as the bytes 32 + column and
\* 32 + row in the legacy encoding, whatever the display offset.
C33_ViewportReport ==
    cmd.op = "MouseReport" =>
      /\ ~panicked
      /\ sent # <<>>
      /\ \E col \in 1..size.num_cols, row \in 1..size.num_lines :
            LET code == cmd.button + ModifierOffsets(cmd.modifiers)
            IN  IF SGR_MOUSE \in last_content.terminal_mode
                THEN sent[1].bytes = <<27, 91, 60>> \o Dec(code) \o <<59>> \o Dec(col)
                                     \o <<59>> \o Dec(row)
                                     \o <<IF cmd.pressed THEN 77 ELSE 109>>
                ELSE /\ sent[1].bytes[5] = 32 + col
                     /\ sent[1].bytes[6] = 32 + row

---------------------------------------------------------------------------
(* Claims C36, C37: the wheel, checked under SpecWheel                     *)

\* a wheel event has just been handled
WheelHandled ==
    /\ cmd'.op \in {"Scroll", "Ignore"}
    /\ input_event'.kind = "MouseWheel"

\* C36: a line-unit or point-unit wheel event that produces a Scroll produces
\* one whose delta has the sign of the event's vertical delta (a positive
\* delta.y scrolls by a positive number of lines); a page-unit event produces
\* no command.
C36_WheelSign ==
    [][WheelHandled =>
         /\ input_event'.unit \in {"Line", "Point"} /\ cmd'.op = "Scroll" =>
              /\ input_event'.delta_y > 0 => cmd'.delta > 0
              /\ input_event'.delta_y < 0 => cmd'.delta < 0
         /\ input_event'.unit = "Page" => cmd'.op = "Ignore"]_vars

\* the lines a handled wheel event scrolled by
Emitted(c) == IF c.op = "Scroll" THEN c.delta ELSE 0

\* C37: after a point-unit event the accumulator is smaller in magnitude than
\* the font size, a Scroll is emitted exactly when the accumulated distance
\* is a whole line or more, and font size times the lines emitted equals the
\* event's pixels plus the change of the accumulator (so that over a sequence
\* starting from 0 the sums agree); other units leave the accumulator alone.
C37_Accumulator ==
    [][WheelHandled =>
         IF input_event'.unit = "Point"
         THEN /\ Abs(state'.scroll_pixels) < input_event'.font_size
              /\ (cmd'.op = "Scroll") <=>
                   (Abs(state.scroll_pixels - input_event'.delta_y)
                      >= input_event'.font_size)
              /\ input_event'.font_size * Sub * Emitted(cmd')
                   = Sub * (input_event'.delta_y + state'.scroll_pixels
                            - state.scroll_pixels)
         ELSE state'.scroll_pixels = state.scroll_pixels]_vars

\* seven pixels arrive on top of a remainder and complete a line
C37_Witness ==
    /\ cmd.op = "Scroll"
    /\ input_event.kind = "MouseWheel"
    /\ input_event.unit = "Point"
    /\ Abs(input_event.delta_y) = Px(7)
    /\ input_event.font_size = Px(10)
    /\ state.scroll_pixels # 0

---------------------------------------------------------------------------
(* Claim C38: a frame without the focus or the pointer, under SpecFrame    *)

\* C38: while ui runs without the focus or without the pointer over the
\* widget, no event is translated and no command other than the frame's
\* Resize reaches the backend (the sync of show is not a command), the state
\* ui works on stays what egui's memory held, and the memory is not changed
\* by the frame.
C38_UnfocusedFrame ==
    /\ []((frame.pc # "idle" /\ ~frame.accepts) =>
            /\ state = memory
            /\ pending = <<>>
            /\ cmd.op \in {"Frame", "Resize", "Sync", "Engine"}
            /\ cmd.op = "Frame" => cmd.step # "event")
    /\ [][(frame.pc # "idle" /\ ~frame.accepts) =>
            /\ memory' = memory
            /\ input_event' = input_event]_vars

\* a press in an earlier frame left the drag flag set; this frame has no
\* focus, its Resize is done and its key and wheel events are waiting
C38_Witness ==
    /\ frame.pc = "input"
    /\ ~frame.accepts
    /\ Len(frame.events) = 2
    /\ cmd.op = "Resize"
    /\ memory.is_dragged
    /\ state = memory

---------------------------------------------------------------------------
(* Claims C39, C40: the shapes of a frame, checked under SpecRender        *)

\* the shapes the frame's show has just handed to the painter
Painted == show(last_content, state, frame.layout, theme)
JustPainted == cmd.op = "Frame" /\ cmd.step = "render"

\* the cells show visits, and their geometry on the canvas
VisibleCells ==
    {display_iter(last_content.grid)[i] :
       i \in 1..Len(display_iter(last_content.grid))}
PaintedCells ==
    {p \in VisibleCells : "WIDE_CHAR_SPACER" \notin grid_cell(last_content.grid, p).flags}
CellOrigin(p) ==
    <<frame.layout.origin[1] + Px(last_content.terminal_size.cell_width * p.column),
      frame.layout.origin[2] + Px(last_content.terminal_size.cell_height
                                  * (p.line + last_content.grid.display_offset))>>
CellHeight == Px(last_content.terminal_size.cell_height)
GlobalBackground == get_color(theme, Named("Background")).rgb
CursorPoint == cursor_point(last_content.grid.content)

\* the colours of a cell after the dimming and the one swap
Selected(p) ==
    /\ last_content.selectable_range.some
    /\ range_contains(last_content.selectable_range.val, p)
Swapped(p) == "INVERSE" \in grid_cell(last_content.grid, p).flags \/ Selected(p)
EffectiveBackground(p) ==
    LET cell == grid_cell(last_content.grid, p)
        fg == get_color(theme, cell.fg).rgb
    IN  IF Swapped(p)
        THEN (IF cell.flags \cap {"DIM", "BOLD"} # {} THEN linear_multiply(fg, 7) ELSE fg)
        ELSE get_color(theme, cell.bg).rgb

\* the width of the cursor's cell, double under a wide character
CursorWidth ==
    (IF "WIDE_CHAR" \in grid_cell(last_content.grid, CursorPoint).flags THEN 2 ELSE 1)
    * Px(last_content.terminal_size.cell_width)

\* the glyph of the cursor's cell: a text anchored at the middle of its top
CursorGlyphs(shapes) ==
    {i \in 1..Len(shapes) :
       /\ shapes[i].shape = "Text"
       /\ shapes[i].pos =
            <<CellOrigin(CursorPoint)[1]
                  + CursorWidth \div 2,
              CellOrigin(CursorPoint)[2]>>}

\* the cursor highlight: a rectangle over the cursor's cell, of its size
CursorRects(shapes) ==
    {i \in 1..Len(shapes) :
       /\ shapes[i].shape = "Rect"
       /\ shapes[i].min = CellOrigin(CursorPoint)
       /\ shapes[i].size = <<CursorWidth, CellHeight>>}

\* C39: with the cursor on a painted cell, outside application-cursor mode
\* one full-cell rectangle in the foreground colour of the cursor's cell is
\* drawn at the cursor's point; in application-cursor mode no such rectangle
\* is drawn, and the glyph of the cursor's cell is drawn in the cell's
\* background colour.
C39_CursorBlock ==
    (JustPainted /\ CursorPoint \in PaintedCells) =>
      LET shapes == Painted
      IN  IF APP_CURSOR \in last_content.terminal_mode
          THEN /\ CursorRects(shapes) = {}
               /\ \A i \in CursorGlyphs(shapes) :
                     shapes[i].color = EffectiveBackground(CursorPoint)
          ELSE /\ Cardinality(CursorRects(shapes)) = 1
               /\ \A i \in CursorRects(shapes) :
                     shapes[i].fill =
                       get_color(theme, grid_cell(last_content.grid, CursorPoint).fg).rgb

\* the shapes of each kind, and the cells that call for them
CellRects(shapes, p) ==
    {i \in 1..Len(shapes) :
       /\ shapes[i].shape = "Rect"
       /\ shapes[i].min = CellOrigin(p)
       /\ shapes[i].size[2] = CellHeight + Px(1)}
GlobalRects(shapes) ==
    {i \in 1..Len(shapes) :
       /\ shapes[i].shape = "Rect"
       /\ shapes[i].min = frame.layout.origin
       /\ shapes[i].size = <<frame.layout.size.width, frame.layout.size.height>>
       /\ shapes[i].fill = GlobalBackground}
ShapesOf(shapes, kind) == {i \in 1..Len(shapes) : shapes[i].shape = kind}
BackgroundCells == {p \in PaintedCells : EffectiveBackground(p) # GlobalBackground}
GlyphCells == {p \in PaintedCells : grid_cell(last_content.grid, p).c \notin {32, 9}}
UnderlinedCells ==
    {p \in PaintedCells :
       /\ last_content.hovered_hyperlink.some
       /\ span_contains(last_content.hovered_hyperlink.val, p)
       /\ span_contains(last_content.hovered_hyperlink.val,
                        state.current_mouse_position_on_grid)}

\* C40: the shapes of a frame are one global background rectangle, first,
\* and for every visible cell that is not a wide-character spacer exactly one
\* background rectangle, in the effective background, when that differs from
\* the global background and none when it does not; one glyph for every such
\* cell that holds neither a space nor a tab; the cursor's rectangle and the
\* underlines of a hovered link; and nothing else, so that a spacer adds no
\* shape.
C40_CellShapes ==
    JustPainted =>
      LET shapes == Painted
      IN  /\ GlobalRects(shapes) = {1}
          /\ \A p \in PaintedCells :
                /\ Cardinality(CellRects(shapes, p))
                     = IF p \in BackgroundCells THEN 1 ELSE 0
                /\ \A i \in CellRects(shapes, p) :
                      shapes[i].fill = EffectiveBackground(p)
          /\ Cardinality(ShapesOf(shapes, "Text")) = Cardinality(GlyphCells)
          /\ Cardinality(ShapesOf(shapes, "LineSegment")) = Cardinality(UnderlinedCells)
          /\ Len(shapes) = 1 + Cardinality(BackgroundCells) + Cardinality(GlyphCells)
                              + Cardinality(UnderlinedCells)
                              + Cardinality(PaintedCells \cap {CursorPoint})

\* a wide character, its spacer, an inverse glyph under a selection that
\* reaches it, and a blank on red have been painted: the global rectangle, a
\* rectangle for each of the three painted cells the selection or the colour
\* calls for, the cursor, and two glyphs
C40_Witness ==
    /\ JustPainted
    /\ last_content.grid.content = StyledWide
    /\ last_content.selectable_range.some
    /\ Cardinality(PaintedCells) = 3
    /\ Cardinality(VisibleCells) = 4
    /\ Cardinality(BackgroundCells) >= 2
    /\ Cardinality(ShapesOf(Painted, "Text")) = 2

============================================================================
